---- MODULE Spec2Model ----
(***************************************************************************)
(* Model of tidal-library-tools: the paginated collector (get_all_tracks), *)
(* the duplicate grouper (find_duplicates) and the convergence loop of     *)
(* limpiar_duplicados_tidal.py (remove_duplicates_round, main).            *)
(*                                                                         *)
(* Texts are sequences of one-character strings, so that normalize is      *)
(* computed character by character as the regular expressions do.         *)
(***************************************************************************)
EXTENDS Integers, Sequences, FiniteSets, TLC

(***************************************************************************)
(* Bounds of the model.                                                    *)
(***************************************************************************)
\* limit (line 229) is 100 and MAX_TRACKS (line 29) is 50_000 in the source;
\* the model keeps the code that uses them and scales the two numbers down.
LIMIT == 2
MAX_TRACKS == 3
\* the page requests one call of get_all_tracks may issue against the
\* arbitrary source of SpecCollect (the list behind Spec is finite and needs
\* no bound)
MaxPages == 3
\* the longest list find_duplicates is applied to on its own
MaxGroup == 3
\* the most words of a generated argument of normalize
MaxWords == 3
\* the longest answer of session.search, in tracks
MaxResults == 2

\* Python's None
None == "None"
\* Python's None where a track object is expected
Nothing == [none |-> TRUE]

VARIABLES
    favs,                \* the remote favorites list (the service's state)
    pc,                  \* position of main / remove_duplicates_round
    gpc,                 \* position of get_all_tracks
    offset,              \* get_all_tracks: offset
    consecutive_empty,   \* get_all_tracks: consecutive_empty
    all_tracks,          \* get_all_tracks: all_tracks
    seen_ids,            \* get_all_tracks: seen_ids
    skipped_unavailable, \* get_all_tracks: skipped_unavailable
    items,               \* get_all_tracks: the items of the page not yet iterated
    nreq,                \* page requests issued by the current call
    lastResp,            \* kind of the last page response: "none", "error", "empty", "items"
    prevResp,            \* kind of the page response before the last
    repeatDropped,       \* some record was dropped because its id had been seen
    duplicates,          \* remove_duplicates_round / main: duplicates
    g,                   \* remove_duplicates_round: index of the group being handled
    e,                   \* remove_duplicates_round: index of the copy in extras
    eliminated,          \* remove_duplicates_round: eliminated; main: its return value
    round_num,           \* main: round_num
    all_removed,         \* main: all_removed
    all_errors,          \* main: all_errors
    removeLog,           \* the calls of favorites.remove_track: [round, id, ok]
    raw_text,            \* normalize: the argument
    norm_text,           \* normalize: the value returned
    up_favs,             \* upgrade: the remote favorites list (the service's state)
    up_pc,               \* upgrade: position of main / process_tracks
    up_confirm,          \* upgrade: main's confirm, the answer typed at the prompt
    up_tracks,           \* process_tracks: tracks
    up_i,                \* process_tracks: index of the track being handled
    results,             \* search_better_version: the answer of session.search
    better,              \* process_tracks: better
    improved,            \* process_tracks: improved
    skipped_top,         \* process_tracks: skipped_top
    log_entries,         \* process_tracks: log_entries
    errors,              \* process_tracks: errors
    calls,               \* upgrade: the remote calls issued and the time.sleep that
                         \* followed each: [op, track, id, ok, delay]
    sy_favs,             \* sync: the remote favorites list (the service's state)
    sy_pc,               \* sync: position of main
    sy_offset,           \* sync main: offset
    sy_empty,            \* sync main: consecutive_empty
    existing_ids,        \* sync main: existing_ids
    sy_songs,            \* sync main: songs, as (artist, title)
    sy_i,                \* sync main: index of the song being handled
    sy_track,            \* sync main: track
    added,               \* sync main: added
    not_found,           \* sync main: not_found
    already_exists,      \* sync main: already_exists
    sy_errors,           \* sync main: errors
    sy_adds              \* sync: the calls of favorites.add_track: [song, id, ok]

collectorVars == <<gpc, offset, consecutive_empty, all_tracks, seen_ids,
                   skipped_unavailable, items, nreq, lastResp, prevResp, repeatDropped>>
mainVars == <<favs, pc, duplicates, g, e, eliminated, round_num, all_removed,
              all_errors, removeLog>>
pureVars == <<raw_text, norm_text>>
upgradeVars == <<up_favs, up_pc, up_confirm, up_tracks, up_i, results, better, improved, skipped_top,
                 log_entries, errors, calls>>
syncVars == <<sy_favs, sy_pc, sy_offset, sy_empty, existing_ids, sy_songs, sy_i, sy_track,
              added, not_found, already_exists, sy_errors, sy_adds>>
vars == <<mainVars, collectorVars, pureVars, upgradeVars, syncVars>>

\* the state a step of the deduplication program leaves alone
notDedup == <<pureVars, upgradeVars, syncVars>>
\* the state an evaluation of a text function leaves alone
notPure == <<mainVars, collectorVars, upgradeVars, syncVars>>
\* the state a step of the upgrade program leaves alone
notUpgrade == <<mainVars, collectorVars, pureVars, syncVars>>
\* the state a step of the sync program leaves alone
notSync == <<mainVars, collectorVars, pureVars, upgradeVars>>

(***************************************************************************)
(* Texts: character classes of Python's re for ASCII text.                 *)
(***************************************************************************)
UpperLetters == <<"A","B","C","D","E","F","G","H","I","J","K","L","M","N","O","P","Q","R","S","T","U","V","W","X","Y","Z">>
LowerLetters == <<"a","b","c","d","e","f","g","h","i","j","k","l","m","n","o","p","q","r","s","t","u","v","w","x","y","z">>
DigitChars == <<"0","1","2","3","4","5","6","7","8","9">>

Range(s) == {s[i] : i \in 1..Len(s)}

IsDigit(c) == c \in Range(DigitChars)
IsLower(c) == c \in Range(LowerLetters)
IsUpper(c) == c \in Range(UpperLetters)
\* \s
IsSpace(c) == c \in {" ", "\t", "\n", "\r", "\f"}
\* \w
IsWordChar(c) == IsDigit(c) \/ IsLower(c) \/ IsUpper(c) \/ c = "_"

DigitValue(c) == (CHOOSE k \in 1..10 : DigitChars[k] = c) - 1

\* str.lower(), one character
LowerChar(c) ==
    IF IsUpper(c) THEN LowerLetters[CHOOSE k \in 1..26 : UpperLetters[k] = c] ELSE c

\* str.lower()
lower(text) == [i \in 1..Len(text) |-> LowerChar(text[i])]

\* is the character at index k a word character (FALSE outside the text)
WordCharAt(text, k) == k >= 1 /\ k <= Len(text) /\ IsWordChar(text[k])

\* \b between index p-1 and index p
Boundary(text, p) == WordCharAt(text, p - 1) # WordCharAt(text, p)

\* the literal w starts at index i
LitAt(text, i, w) ==
    /\ i >= 1
    /\ i + Len(w) - 1 <= Len(text)
    /\ \A k \in 1..Len(w) : text[i + k - 1] = w[k]

\* \bw\b matches at index i
WordAt(text, i, w) == Boundary(text, i) /\ LitAt(text, i, w) /\ Boundary(text, i + Len(w))

\* the alternatives of NOISE_PATTERNS that are words, in the order of the list;
\* remaster(?:ed)? is greedy: "remastered" is tried before "remaster"
NOISE_WORDS ==
    << <<"r","e","m","a","s","t","e","r","e","d">>,
       <<"r","e","m","a","s","t","e","r">>,
       <<"a","n","n","i","v","e","r","s","a","r","y">>,
       <<"d","e","l","u","x","e">>,
       <<"b","o","n","u","s">>,
       <<"a","l","b","u","m"," ","v","e","r","s","i","o","n">>,
       <<"s","i","n","g","l","e"," ","v","e","r","s","i","o","n">>,
       <<"r","a","d","i","o"," ","e","d","i","t">>,
       <<"o","r","i","g","i","n","a","l">>,
       <<"e","x","p","l","i","c","i","t">>,
       <<"c","l","e","a","n">>,
       <<"l","i","v","e">>,
       <<"a","c","o","u","s","t","i","c">>,
       <<"m","o","n","o">>,
       <<"s","t","e","r","e","o">>,
       <<"d","i","g","i","t","a","l"," ","r","e","m","a","s","t","e","r">>,
       <<"r","e","v","i","s","i","t","e","d">>,
       <<"e","x","p","a","n","d","e","d">>,
       <<"s","p","e","c","i","a","l"," ","e","d","i","t","i","o","n">> >>

\* \b(19|20)\d{2}\b matches at index i
YearAt(text, i) ==
    /\ Boundary(text, i)
    /\ i >= 1
    /\ i + 3 <= Len(text)
    /\ \/ text[i] = "1" /\ text[i + 1] = "9"
       \/ text[i] = "2" /\ text[i + 1] = "0"
    /\ IsDigit(text[i + 2])
    /\ IsDigit(text[i + 3])
    /\ Boundary(text, i + 4)

\* the length of the run of digits that starts at index i
RECURSIVE DigitRun(_, _)
DigitRun(text, i) ==
    IF i <= Len(text) /\ IsDigit(text[i]) THEN 1 + DigitRun(text, i + 1) ELSE 0

\* the length of the match of \b\d+(st|nd|rd|th)\b at index i, 0 when none
OrdinalLenAt(text, i) ==
    LET n == DigitRun(text, i)
        suffixes == { <<"s","t">>, <<"n","d">>, <<"r","d">>, <<"t","h">> }
    IN  IF /\ n >= 1
           /\ Boundary(text, i)
           /\ \E w \in suffixes : LitAt(text, i + n, w)
           /\ Boundary(text, i + n + 2)
        THEN n + 2
        ELSE 0

\* the length of the match of NOISE_RE at index i (the first alternative, in
\* the order of NOISE_PATTERNS, that matches there), 0 when none matches
NoiseMatchLen(text, i) ==
    LET hits == {k \in 1..Len(NOISE_WORDS) : WordAt(text, i, NOISE_WORDS[k])}
    IN  IF hits # {}
        THEN Len(NOISE_WORDS[CHOOSE k \in hits : \A j \in hits : k <= j])
        ELSE IF YearAt(text, i) THEN 4 ELSE OrdinalLenAt(text, i)

\* NOISE_RE.sub(" ", text), from index i on
RECURSIVE NoiseSub(_, _)
NoiseSub(text, i) ==
    IF i > Len(text) THEN <<>>
    ELSE LET n == NoiseMatchLen(text, i)
         IN  IF n > 0 THEN <<" ">> \o NoiseSub(text, i + n)
             ELSE <<text[i]>> \o NoiseSub(text, i + 1)

\* the index of the end of the match of  open .*? close  at index i, 0 when none
SpanEnd(text, i, open, close) ==
    IF text[i] # open THEN 0
    ELSE LET closes == {j \in (i + 1)..Len(text) : text[j] = close}
         IN  IF closes = {} THEN 0
             ELSE LET j == CHOOSE x \in closes : \A y \in closes : x <= y
                  IN  IF \E k \in (i + 1)..(j - 1) : text[k] = "\n" THEN 0 ELSE j

\* re.sub(r"\(.*?\)", " ", text) and re.sub(r"\[.*?\]", " ", text), from index i on
RECURSIVE StripSpans(_, _, _, _)
StripSpans(text, i, open, close) ==
    IF i > Len(text) THEN <<>>
    ELSE LET j == SpanEnd(text, i, open, close)
         IN  IF j > 0 THEN <<" ">> \o StripSpans(text, j + 1, open, close)
             ELSE <<text[i]>> \o StripSpans(text, i + 1, open, close)

\* re.sub(r"[^a-z0-9\s]", " ", text)
StripSymbols(text) ==
    [i \in 1..Len(text) |->
        IF IsLower(text[i]) \/ IsDigit(text[i]) \/ IsSpace(text[i]) THEN text[i] ELSE " "]

\* " ".join(text.split()), from index i on; acc is the output so far and gap
\* says that white space was passed since its last character
RECURSIVE JoinSplit(_, _, _, _)
JoinSplit(text, i, acc, gap) ==
    IF i > Len(text) THEN acc
    ELSE IF IsSpace(text[i]) THEN JoinSplit(text, i + 1, acc, TRUE)
    ELSE JoinSplit(text, i + 1,
                   IF gap /\ acc # <<>> THEN acc \o <<" ", text[i]>> ELSE Append(acc, text[i]),
                   FALSE)

normalize(text) ==
    LET t1 == lower(text)
        t2 == StripSpans(t1, 1, "(", ")")
        t3 == StripSpans(t2, 1, "[", "]")
        t4 == NoiseSub(t3, 1)
        t5 == StripSymbols(t4)
    IN  JoinSplit(t5, 1, <<>>, FALSE)


(***************************************************************************)
(* Tracks.  A track is [id, name, artist, album, audio_quality]: artist    *)
(* and album stand for track.artist.name and track.album.name, NoText for  *)
(* an absent object or text; audio_quality is a label or None.             *)
(***************************************************************************)
\* Python's None where a text is expected (no text holds this element)
NoText == <<"None">>

\* x or d, for texts
OrText(x, d) == IF x = NoText \/ x = <<>> THEN d ELSE x

QUALITY_RANK ==
    [q \in {"HI_RES_LOSSLESS", "HI_RES", "LOSSLESS", "HIGH", "LOW"} |->
        CASE q = "HI_RES_LOSSLESS" -> 5
          [] q = "HI_RES" -> 4
          [] q = "LOSSLESS" -> 3
          [] q = "HIGH" -> 2
          [] q = "LOW" -> 1]

\* str.upper() on the quality labels of the model
upper(q) ==
    CASE q = "lossless" -> "LOSSLESS"
      [] q = "high" -> "HIGH"
      [] OTHER -> q

get_quality(track) ==
    IF track.audio_quality = None THEN "UNKNOWN" ELSE upper(track.audio_quality)

quality_rank(track) ==
    IF get_quality(track) \in DOMAIN QUALITY_RANK THEN QUALITY_RANK[get_quality(track)] ELSE 0

\* title + " " + album name
Tag(track) == OrText(track.name, <<>>) \o <<" ">> \o OrText(track.album, <<>>)

\* pattern.search(text) for a pattern \b(w1|w2|...)\b compiled with re.I
SearchWords(text, words) ==
    \E i \in 1..Len(text) : \E w \in words : WordAt(lower(text), i, w)

RE_REMASTER ==
    { <<"r","e","m","a","s","t","e","r","e","d">>,
      <<"r","e","m","a","s","t","e","r">>,
      <<"d","i","g","i","t","a","l"," ","r","e","m","a","s","t","e","r">> }
RE_EXPLICIT == { <<"e","x","p","l","i","c","i","t">> }
RE_CLEAN == { <<"c","l","e","a","n">> }
RE_STEREO == { <<"s","t","e","r","e","o">> }
RE_MONO == { <<"m","o","n","o">> }
RE_ALBUM_VER == { <<"a","l","b","u","m"," ","v","e","r","s","i","o","n">> }
RE_SINGLE_VER == { <<"s","i","n","g","l","e"," ","v","e","r","s","i","o","n">> }

\* int(m.group(0)) for the first match of _RE_YEAR in text, -1 when it has none
FirstYear(text) ==
    LET at == {i \in 1..Len(text) : YearAt(text, i)}
    IN  IF at = {} THEN -1
        ELSE LET i == CHOOSE x \in at : \A y \in at : x <= y
             IN  1000 * DigitValue(text[i]) + 100 * DigitValue(text[i + 1])
                 + 10 * DigitValue(text[i + 2]) + DigitValue(text[i + 3])

\* mutant of remaster_year: a remaster without a year scores as no remaster
remaster_year_UndatedAsNone(track) ==
    IF ~SearchWords(Tag(track), RE_REMASTER) THEN -1
    ELSE FirstYear(Tag(track))

remaster_year(track) ==
    IF ~SearchWords(Tag(track), RE_REMASTER) THEN -1
    ELSE IF FirstYear(Tag(track)) = -1 THEN 0 ELSE FirstYear(Tag(track))

version_priority(track) ==
    LET tag == Tag(track)
        remaster_score == remaster_year(track)
        explicit_score ==
            IF SearchWords(tag, RE_EXPLICIT) THEN 1
            ELSE IF ~SearchWords(tag, RE_CLEAN) THEN 0 ELSE -1
        stereo_score ==
            IF SearchWords(tag, RE_STEREO) THEN 1
            ELSE IF SearchWords(tag, RE_MONO) THEN -1 ELSE 0
        album_score ==
            IF SearchWords(tag, RE_ALBUM_VER) THEN 1
            ELSE IF SearchWords(tag, RE_SINGLE_VER) THEN -1 ELSE 0
        id_score == track.id
    IN  <<remaster_score, explicit_score, stereo_score, album_score, id_score>>

\* mutant of sort_key: the identifier is not part of the key
sort_key_NoId(t) ==
    LET qr == quality_rank(t)
        vp == version_priority(t)
    IN  <<-qr, -vp[1], -vp[2], -vp[3], -vp[4], 0>>

\* mutant of sort_key: the quality comes after the version criteria
sort_key_VersionFirst(t) ==
    LET qr == quality_rank(t)
        vp == version_priority(t)
    IN  <<-vp[1], -vp[2], -vp[3], -vp[4], -qr, vp[5]>>

sort_key(t) ==
    LET qr == quality_rank(t)
        vp == version_priority(t)
    IN  <<-qr, -vp[1], -vp[2], -vp[3], -vp[4], vp[5]>>

(***************************************************************************)
(* The catalog: the raw record (JSON) the service holds for each track id. *)
(* parse_ok says whether session.parse_track accepts the record.           *)
(***************************************************************************)
Catalog ==
    [i \in 1..5 |->
        CASE i = 1 -> [id |-> 1, title |-> <<"O","d","e">>,
                       artist |-> <<"A","b","b","a">>, album |-> <<"H","i","t","s">>,
                       audioQuality |-> "HIGH", parse_ok |-> TRUE]
          [] i = 2 -> [id |-> 2,
                       title |-> <<"O","d","e"," ","(","R","e","m","a","s","t","e","r","e","d"," ","2","0","1","3",")">>,
                       artist |-> <<"A","B","B","A">>, album |-> <<"H","i","t","s">>,
                       audioQuality |-> "LOSSLESS", parse_ok |-> TRUE]
          [] i = 3 -> [id |-> 3, title |-> <<"O","d","e"," ","-"," ","L","i","v","e">>,
                       artist |-> <<"A","b","b","a">>, album |-> NoText,
                       audioQuality |-> "HIGH", parse_ok |-> FALSE]
          [] i = 4 -> [id |-> 4, title |-> <<"S","u","n">>,
                       artist |-> <<"A","b","b","a">>, album |-> <<"H","i","t","s">>,
                       audioQuality |-> "LOW", parse_ok |-> TRUE]
          [] i = 5 -> [id |-> 5, title |-> <<"S","u","n"," ","[","M","o","n","o","]">>,
                       artist |-> <<"A","b","b","a">>, album |-> <<"H","i","t","s">>,
                       audioQuality |-> None, parse_ok |-> TRUE]]

TrackIds == DOMAIN Catalog

\* a JSON null payload, and a payload without a usable id
NullData == [id |-> 0, title |-> NoText, artist |-> NoText, album |-> NoText,
             audioQuality |-> None, parse_ok |-> FALSE, null |-> TRUE]
NoIdData == [id |-> 0, title |-> <<"O","d","e">>, artist |-> <<"A","b","b","a">>,
             album |-> NoText, audioQuality |-> "HIGH", parse_ok |-> TRUE]

\* the items a page may hold: {"item": null}, {"item": {...}}
GhostItem == [item |-> NullData]
ItemOf(i) == [item |-> Catalog[i]]
\* the track ids the arbitrary source of SpecCollect serves
CollectIds == {1, 2, 3, 4}
ItemUniverse == {GhostItem, [item |-> NoIdData]} \cup {ItemOf(i) : i \in CollectIds}

\* "not track_data"
IsNull(track_data) == "null" \in DOMAIN track_data

(***************************************************************************)
(* _parse_track_safe                                                       *)
(***************************************************************************)
\* mutant of MinimalTrack: the object built after a parse failure has no id
MinimalTrack_NoId(track_data) ==
    [id |-> 0,
     name |-> OrText(track_data.title, <<"?">>),
     artist |-> OrText(track_data.artist, <<"?">>),
     album |-> OrText(track_data.album, <<"?">>),
     audio_quality |-> track_data.audioQuality]

\* the minimal object built from the raw fields when parse_track raises
MinimalTrack(track_data) ==
    [id |-> track_data.id,
     name |-> OrText(track_data.title, <<"?">>),
     artist |-> OrText(track_data.artist, <<"?">>),
     album |-> OrText(track_data.album, <<"?">>),
     audio_quality |-> track_data.audioQuality]

parse_track_safe(track_data) ==
    IF track_data.parse_ok
    THEN [id |-> track_data.id, name |-> track_data.title, artist |-> track_data.artist,
          album |-> track_data.album, audio_quality |-> track_data.audioQuality]
    ELSE MinimalTrack(track_data)

\* the tracks (parsed objects) the lists are made of
RankTracks ==
    [i \in 1..15 |->
        CASE i = 1 -> [id |-> 1, name |-> <<"O","d","e">>,
                       artist |-> <<"A","b","b","a">>, album |-> <<"H","i","t","s">>,
                       audio_quality |-> "LOSSLESS"]
          [] i = 2 -> [id |-> 2, name |-> <<"O","d","e"," ","(","R","e","m","a","s","t","e","r","e","d"," ","2","0","1","3",")">>,
                       artist |-> <<"A","B","B","A">>, album |-> <<"H","i","t","s">>,
                       audio_quality |-> "HIGH"]
          [] i = 3 -> [id |-> 3, name |-> <<"O","d","e"," ","-"," ","R","e","m","a","s","t","e","r","e","d"," ","1","9","9","9">>,
                       artist |-> <<"A","b","b","a">>, album |-> NoText,
                       audio_quality |-> "LOSSLESS"]
          [] i = 4 -> [id |-> 4, name |-> <<"O","d","e"," ","(","R","e","m","a","s","t","e","r","e","d"," ","2","0","1","3",")">>,
                       artist |-> <<"A","b","b","a">>, album |-> <<"H","i","t","s">>,
                       audio_quality |-> "LOSSLESS"]
          [] i = 5 -> [id |-> 5, name |-> <<"O","d","e"," ","[","R","e","m","a","s","t","e","r","]">>,
                       artist |-> <<"a","b","b","a">>, album |-> <<"H","i","t","s">>,
                       audio_quality |-> "LOSSLESS"]
          [] i = 6 -> [id |-> 6, name |-> <<"O","d","e"," ","(","E","x","p","l","i","c","i","t",")">>,
                       artist |-> <<"A","b","b","a">>, album |-> <<"H","i","t","s">>,
                       audio_quality |-> "LOSSLESS"]
          [] i = 7 -> [id |-> 7, name |-> <<"O","d","e"," ","(","C","l","e","a","n",")">>,
                       artist |-> <<"A","b","b","a">>, album |-> <<"H","i","t","s">>,
                       audio_quality |-> "LOSSLESS"]
          [] i = 8 -> [id |-> 8, name |-> <<"O","d","e">>,
                       artist |-> <<"A","b","b","a">>, album |-> <<"H","i","t","s"," ","(","S","t","e","r","e","o",")">>,
                       audio_quality |-> "LOSSLESS"]
          [] i = 9 -> [id |-> 9, name |-> <<"O","d","e"," ","[","M","o","n","o","]">>,
                       artist |-> <<"A","b","b","a">>, album |-> <<"H","i","t","s">>,
                       audio_quality |-> "LOSSLESS"]
          [] i = 10 -> [id |-> 10, name |-> <<"O","d","e"," ","-"," ","A","l","b","u","m"," ","V","e","r","s","i","o","n">>,
                       artist |-> <<"A","b","b","a">>, album |-> <<"H","i","t","s">>,
                       audio_quality |-> "LOSSLESS"]
          [] i = 11 -> [id |-> 11, name |-> <<"O","d","e"," ","(","S","i","n","g","l","e"," ","V","e","r","s","i","o","n",")">>,
                       artist |-> <<"A","b","b","a">>, album |-> <<"H","i","t","s">>,
                       audio_quality |-> "LOSSLESS"]
          [] i = 12 -> [id |-> 12, name |-> <<"O","d","e">>,
                       artist |-> <<"A","b","b","a">>, album |-> <<"H","i","t","s">>,
                       audio_quality |-> "LOSSLESS"]
          [] i = 13 -> [id |-> 13, name |-> <<"O","d","e">>,
                       artist |-> <<"A","b","b","a">>, album |-> <<"H","i","t","s">>,
                       audio_quality |-> None]
          [] i = 14 -> [id |-> 14, name |-> <<"S","u","n">>,
                       artist |-> <<"Z","e","d">>, album |-> <<"H","i","t","s">>,
                       audio_quality |-> "LOW"]
          [] i = 15 -> [id |-> 15, name |-> <<"S","u","n"," ","(","L","i","v","e",")">>,
                       artist |-> <<"Z","E","D">>, album |-> <<"H","i","t","s">>,
                       audio_quality |-> "DOLBY"]]

\* the tracks of the upgrade runs: 1..4 are favorites, 5..12 are what the
\* catalogue search can answer
UpgradeTracks ==
    << [id |-> 21, name |-> <<"O","d","e">>,
        artist |-> <<"A","b","b","a">>, album |-> <<"H","i","t","s">>,
        audio_quality |-> "LOW"],
       [id |-> 22, name |-> <<"O","d","e"," ","(","R","e","m","a","s","t","e","r","e","d"," ","2","0","1","3",")">>,
        artist |-> <<"A","B","B","A">>, album |-> <<"H","i","t","s">>,
        audio_quality |-> "HI_RES_LOSSLESS"],
       [id |-> 23, name |-> <<"O","d","e">>,
        artist |-> <<"A","b","b","a">>, album |-> <<"G","o","l","d">>,
        audio_quality |-> "HI_RES"],
       [id |-> 24, name |-> <<"S","u","n">>,
        artist |-> <<"Z","e","d">>, album |-> <<"H","i","t","s">>,
        audio_quality |-> "HIGH"],
       [id |-> 31, name |-> <<"O","d","e">>,
        artist |-> <<"A","B","B","A">>, album |-> <<"H","i","t","s">>,
        audio_quality |-> "LOSSLESS"],
       [id |-> 32, name |-> <<"O","d","e"," ","-"," ","L","i","v","e">>,
        artist |-> <<"A","b","b","a">>, album |-> <<"H","i","t","s">>,
        audio_quality |-> "HI_RES_LOSSLESS"],
       [id |-> 33, name |-> <<"O","d","e">>,
        artist |-> <<"A","b","b","a">>, album |-> <<"G","o","l","d">>,
        audio_quality |-> "LOSSLESS"],
       [id |-> 34, name |-> <<"O","d","e">>,
        artist |-> <<"Z","e","d">>, album |-> <<"H","i","t","s">>,
        audio_quality |-> "HI_RES_LOSSLESS"],
       [id |-> 35, name |-> <<"O","d","e">>,
        artist |-> <<"A","b","b","a">>, album |-> <<"H","i","t","s">>,
        audio_quality |-> "LOW"],
       [id |-> 36, name |-> <<"O","d","e">>,
        artist |-> <<"A","b","b","a">>, album |-> <<"H","i","t","s">>,
        audio_quality |-> None],
       [id |-> 21, name |-> <<"O","d","e">>,
        artist |-> <<"A","b","b","a">>, album |-> <<"H","i","t","s">>,
        audio_quality |-> "HIGH"],
       [id |-> 37, name |-> <<"S","u","n"," ","[","D","e","l","u","x","e","]">>,
        artist |-> <<"Z","E","D">>, album |-> <<"H","i","t","s">>,
        audio_quality |-> "LOSSLESS"] >>

\* the track_data the service holds for the id of a track of the upgrade runs
\* (the first entry of that id)
UpgradeData(id) ==
    LET t == UpgradeTracks[CHOOSE k \in 1..Len(UpgradeTracks) :
                              /\ UpgradeTracks[k].id = id
                              /\ \A j \in 1..(k - 1) : UpgradeTracks[j].id # id]
    IN  [id |-> t.id, title |-> t.name, artist |-> t.artist, album |-> t.album,
         audioQuality |-> t.audio_quality, parse_ok |-> TRUE]

\* the tracks whose keys are computed once and then looked up
KnownTracks ==
    RankTracks \o [i \in TrackIds |-> parse_track_safe(Catalog[i])] \o UpgradeTracks

(***************************************************************************)
(* find_duplicates                                                         *)
(***************************************************************************)
\* the grouping key of find_duplicates
GroupKey(track) ==
    <<normalize(IF track.artist # NoText THEN track.artist
                ELSE <<"d","e","s","c","o","n","o","c","i","d","o">>),
      normalize(OrText(track.name, <<>>))>>

\* GroupKey and sort_key of the known tracks, computed once
RECURSIVE GroupKeyMemoFrom(_)
GroupKeyMemoFrom(k) ==
    IF k > Len(KnownTracks) THEN <<>>
    ELSE <<GroupKey(KnownTracks[k])>> \o GroupKeyMemoFrom(k + 1)

RECURSIVE SortKeyMemoFrom(_)
SortKeyMemoFrom(k) ==
    IF k > Len(KnownTracks) THEN <<>>
    ELSE <<sort_key(KnownTracks[k])>> \o SortKeyMemoFrom(k + 1)

GroupKeyMemo == GroupKeyMemoFrom(1)
SortKeyMemo == SortKeyMemoFrom(1)

\* GroupKey(t) and sort_key(t), looked up when t is a known track
GroupKeyOf(t) ==
    IF \E k \in 1..Len(KnownTracks) : KnownTracks[k] = t
    THEN GroupKeyMemo[CHOOSE k \in 1..Len(KnownTracks) : KnownTracks[k] = t]
    ELSE GroupKey(t)

SortKeyOf(t) ==
    IF \E k \in 1..Len(KnownTracks) : KnownTracks[k] = t
    THEN SortKeyMemo[CHOOSE k \in 1..Len(KnownTracks) : KnownTracks[k] = t]
    ELSE sort_key(t)

\* the key of every track of the list, in the order of the list
RECURSIVE GroupKeys(_)
GroupKeys(tracks) ==
    IF tracks = <<>> THEN <<>>
    ELSE <<GroupKeyOf(Head(tracks))>> \o GroupKeys(Tail(tracks))

\* sort_key of every track of the list, in the order of the list
RECURSIVE SortKeys(_)
SortKeys(tracks) ==
    IF tracks = <<>> THEN <<>>
    ELSE <<SortKeyOf(Head(tracks))>> \o SortKeys(Tail(tracks))

\* a < b for two tuples of integers of the same length (Python's tuple order)
TupleLess(a, b) ==
    \E i \in 1..Len(a) : a[i] < b[i] /\ \A j \in 1..(i - 1) : a[j] = b[j]

\* mutant of SortByKey: the group is left in the order of the list
RECURSIVE SortByKey_ListOrder(_, _, _)
SortByKey_ListOrder(tracks, sk, S) ==
    IF S = {} THEN <<>>
    ELSE LET m == CHOOSE i \in S : \A j \in S : i <= j
         IN  <<tracks[m]>> \o SortByKey_ListOrder(tracks, sk, S \ {m})

\* list.sort(key=sort_key), the stable sort, of the tracks at the positions S
\* of the list: the next one has the least key, and among equal keys the
\* least position.  sk[i] is sort_key(tracks[i]).
RECURSIVE SortByKey(_, _, _)
SortByKey(tracks, sk, S) ==
    IF S = {} THEN <<>>
    ELSE LET m == CHOOSE i \in S : \A j \in S \ {i} :
                        \/ TupleLess(sk[i], sk[j])
                        \/ (sk[i] = sk[j] /\ i < j)
         IN  <<tracks[m]>> \o SortByKey(tracks, sk, S \ {m})

\* groups[key]: the positions of the tracks with the key of position f
Bucket(gk, f) == {i \in 1..Len(gk) : gk[i] = gk[f]}

\* the positions where a key appears for the first time (the dict's keys, in
\* the dict's order)
KeysInOrder(gk) == {i \in 1..Len(gk) : \A j \in 1..(i - 1) : gk[j] # gk[i]}

\* mutant of IsDuplicateGroup: a bucket of one track is a group
IsDuplicateGroup_NonEmpty(S) == Cardinality(S) > 0

\* is a bucket a duplicate group
IsDuplicateGroup(S) == Cardinality(S) > 1

\* the loop over groups.items(): F is the set of first positions of the keys
\* not visited yet
RECURSIVE DuplicateGroups(_, _, _, _)
DuplicateGroups(tracks, gk, sk, F) ==
    IF F = {} THEN <<>>
    ELSE LET f == CHOOSE i \in F : \A j \in F : i <= j
             rest == DuplicateGroups(tracks, gk, sk, F \ {f})
         IN  IF IsDuplicateGroup(Bucket(gk, f))
             THEN <<[key |-> gk[f],
                     group |-> SortByKey(tracks, sk, Bucket(gk, f))]>> \o rest
             ELSE rest

\* find_duplicates: the groups of more than one track, each sorted, in the
\* order of the dict; duplicates[k] is [key |-> k, group |-> v]
find_duplicates(tracks) ==
    LET gk == GroupKeys(tracks)
        sk == SortKeys(tracks)
    IN  DuplicateGroups(tracks, gk, sk, KeysInOrder(gk))


(***************************************************************************)
(* get_all_tracks                                                          *)
(***************************************************************************)
\* a page response: the request raised, or the JSON carried these items
ErrorResp == [kind |-> "error", items |-> <<>>]
PageResp(its) == [kind |-> "ok", items |-> its]

\* lines 225-231: the locals at the start of a call
CollectorStart ==
    /\ gpc' = "request"
    /\ offset' = 0
    /\ consecutive_empty' = 0
    /\ all_tracks' = <<>>
    /\ seen_ids' = {}
    /\ skipped_unavailable' = 0
    /\ items' = <<>>
    /\ nreq' = 0
    /\ lastResp' = "none"
    /\ prevResp' = "none"
    /\ repeatDropped' = FALSE

\* mutant of EmptyPagesStop: the first empty page ends the enumeration
EmptyPagesStop_OnFirst(n) == n >= 1

\* line 264: the empty pages that end the enumeration
EmptyPagesStop(n) == n >= 2

\* line 296: the safety limit
CapReached(n) == n >= MAX_TRACKS

\* mutant of DropRecord: the set of seen identifiers is not consulted
DropRecord_IgnoreSeen(track_id, seen) == track_id = 0

\* line 278: the record is dropped
DropRecord(track_id, seen) == track_id = 0 \/ track_id \in seen

\* mutant of OnRequestError: the error is treated as a page to skip
OnRequestError_SkipPage ==
    /\ gpc' = "request"
    /\ offset' = offset + LIMIT
    /\ UNCHANGED <<consecutive_empty, all_tracks, seen_ids, skipped_unavailable, items>>

\* lines 247-249: the request raised; the loop is left with what was accumulated
OnRequestError ==
    /\ gpc' = "return"
    /\ UNCHANGED <<offset, consecutive_empty, all_tracks, seen_ids, skipped_unavailable, items>>

\* lines 262-267: a page without items; next_offset is the value that
\* "offset += limit" gives
OnEmptyPageTo(next_offset) ==
    /\ consecutive_empty' = consecutive_empty + 1
    /\ IF EmptyPagesStop(consecutive_empty + 1)
       THEN gpc' = "return" /\ UNCHANGED offset
       ELSE gpc' = "request" /\ offset' = next_offset
    /\ UNCHANGED <<all_tracks, seen_ids, skipped_unavailable, items>>

OnEmptyPage == OnEmptyPageTo(offset + LIMIT)

\* line 270: a page with items
OnItemsPage(its) ==
    /\ consecutive_empty' = 0
    /\ items' = its
    /\ gpc' = "items"
    /\ UNCHANGED <<offset, all_tracks, seen_ids, skipped_unavailable>>

\* lines 233-270: one page request and the handling of its response; n is
\* the number of requests issued with this one
RequestPageTo(resp, next_offset, n) ==
    /\ gpc = "request"
    /\ nreq' = n
    /\ prevResp' = lastResp
    /\ UNCHANGED repeatDropped
    /\ IF resp.kind = "error"
       THEN lastResp' = "error" /\ OnRequestError
       ELSE IF resp.items = <<>>
       THEN lastResp' = "empty" /\ OnEmptyPageTo(next_offset)
       ELSE lastResp' = "items" /\ OnItemsPage(resp.items)

RequestPage(resp) == RequestPageTo(resp, offset + LIMIT, nreq + 1)

\* lines 272-287: one iteration of "for item in items"
ProcessItem ==
    /\ gpc = "items"
    /\ items # <<>>
    /\ LET track_data == Head(items).item
           track == parse_track_safe(track_data)
       IN  IF IsNull(track_data)
           THEN /\ skipped_unavailable' = skipped_unavailable + 1
                /\ UNCHANGED <<all_tracks, seen_ids, repeatDropped>>
           ELSE IF DropRecord(track_data.id, seen_ids)
           THEN /\ repeatDropped' = (repeatDropped \/ track_data.id \in seen_ids)
                /\ UNCHANGED <<all_tracks, seen_ids, skipped_unavailable>>
           ELSE IF track.id = 0
           THEN UNCHANGED <<all_tracks, seen_ids, skipped_unavailable, repeatDropped>>
           ELSE /\ seen_ids' = seen_ids \cup {track_data.id}
                /\ all_tracks' = Append(all_tracks, track)
                /\ UNCHANGED <<skipped_unavailable, repeatDropped>>
    /\ items' = Tail(items)
    /\ UNCHANGED <<gpc, offset, consecutive_empty, nreq, lastResp, prevResp>>

\* lines 295-300: the end of a page with items
EndOfPageTo(next_offset) ==
    /\ gpc = "items"
    /\ items = <<>>
    /\ IF CapReached(Len(all_tracks))
       THEN gpc' = "return" /\ UNCHANGED offset
       ELSE gpc' = "request" /\ offset' = next_offset
    /\ UNCHANGED <<consecutive_empty, all_tracks, seen_ids, skipped_unavailable,
                   items, nreq, lastResp, prevResp, repeatDropped>>

\* mutant of EndOfPage: the offset is not advanced after a page with items
EndOfPage_SameOffset == EndOfPageTo(offset)

EndOfPage == EndOfPageTo(offset + LIMIT)

(***************************************************************************)
(* The collector against an arbitrary source: every page request may raise *)
(* or answer any page of at most LIMIT items.                              *)
(***************************************************************************)
RECURSIVE SeqsUpTo(_, _)
SeqsUpTo(S, n) ==
    IF n = 0 THEN {<<>>}
    ELSE LET shorter == SeqsUpTo(S, n - 1)
         IN  shorter \cup {Append(q, x) : q \in {r \in shorter : Len(r) = n - 1}, x \in S}

AnyResponse == {ErrorResp} \cup {PageResp(its) : its \in SeqsUpTo(ItemUniverse, LIMIT)}

\* no text function is being evaluated
PureIdle ==
    /\ raw_text = <<>>
    /\ norm_text = <<>>

\* the upgrade program is not running
UpgradeIdle ==
    /\ up_favs = <<>>
    /\ up_pc = "idle"
    /\ up_confirm = ""
    /\ up_tracks = <<>>
    /\ up_i = 0
    /\ results = [kind |-> "none"]
    /\ better = Nothing
    /\ improved = 0
    /\ skipped_top = 0
    /\ log_entries = <<>>
    /\ errors = <<>>
    /\ calls = <<>>

SyncIdle ==
    /\ sy_favs = <<>>
    /\ sy_pc = "idle"
    /\ sy_offset = 0
    /\ sy_empty = 0
    /\ existing_ids = {}
    /\ sy_songs = <<>>
    /\ sy_i = 0
    /\ sy_track = Nothing
    /\ added = <<>>
    /\ not_found = <<>>
    /\ already_exists = <<>>
    /\ sy_errors = <<>>
    /\ sy_adds = <<>>

CollectInit ==
    /\ favs = <<>>
    /\ pc = "collect"
    /\ duplicates = <<>>
    /\ g = 0
    /\ e = 0
    /\ eliminated = 0
    /\ round_num = 0
    /\ all_removed = <<>>
    /\ all_errors = <<>>
    /\ removeLog = <<>>
    /\ gpc = "request"
    /\ offset = 0
    /\ consecutive_empty = 0
    /\ all_tracks = <<>>
    /\ seen_ids = {}
    /\ skipped_unavailable = 0
    /\ items = <<>>
    /\ nreq = 0
    /\ lastResp = "none"
    /\ prevResp = "none"
    /\ repeatDropped = FALSE
    /\ PureIdle
    /\ UpgradeIdle
    /\ SyncIdle

SourceAnswers ==
    /\ nreq < MaxPages
    /\ \E resp \in AnyResponse : RequestPage(resp) /\ UNCHANGED <<mainVars, notDedup>>
CollectItem == ProcessItem /\ UNCHANGED <<mainVars, notDedup>>
CollectEndOfPage == EndOfPage /\ UNCHANGED <<mainVars, notDedup>>

CollectNext == SourceAnswers \/ CollectItem \/ CollectEndOfPage

SpecCollect == CollectInit /\ [][CollectNext]_vars


(***************************************************************************)
(* Claims about get_all_tracks, checked under SpecCollect.                 *)
(***************************************************************************)
\* the ids of a list of tracks
IdsOf(tracks) == [i \in 1..Len(tracks) |-> tracks[i].id]

C3_NeverMoreThanCap == Len(all_tracks) <= MAX_TRACKS

\* C4: no two collected tracks share an identifier, and the identifiers of
\* all_tracks are exactly seen_ids.
C4_UniqueIds ==
    /\ \A i, j \in 1..Len(all_tracks) : all_tracks[i].id = all_tracks[j].id => i = j
    /\ Range(IdsOf(all_tracks)) = seen_ids

\* C4 witness: the call returned after a record was dropped because its id
\* had been observed before.
C4_Witness == gpc = "return" /\ repeatDropped /\ Len(all_tracks) >= 2

\* C5: a page request that raises ends the call at once with a normal
\* return: the step that receives the error leaves the accumulated list as
\* it was, and once the error was received no state of the call is left in
\* which a further request could be issued.
C5_ErrorReturnsPartial ==
    /\ [](lastResp = "error" => (gpc = "return" /\ items = <<>>))
    /\ [][lastResp' = "error" =>
            /\ gpc = "request"
            /\ nreq' = nreq + 1
            /\ all_tracks' = all_tracks
            /\ seen_ids' = seen_ids]_vars
    /\ [][lastResp = "error" => nreq' = nreq]_vars

\* C5 witness: the third page request raised after two pages were collected.
C5_Witness == lastResp = "error" /\ nreq = 3 /\ Len(all_tracks) = 2 /\ gpc = "return"

\* C17: an item with a payload and an id not seen before is appended to the
\* list by the step that handles it, whether parse_track accepted it or not
\* (the object built after a parse failure has the id and the raw fields of
\* the payload), the enumeration goes on with the next item, and nothing is
\* ever taken out of the list.
C17_ParseFailureKeepsRecord ==
    /\ [][(gpc = "items" /\ items # <<>>) =>
            LET d == Head(items).item
                n == Len(all_tracks)
            IN  (~IsNull(d) /\ d.id # 0 /\ d.id \notin seen_ids) =>
                    /\ Len(all_tracks') = n + 1
                    /\ all_tracks'[n + 1].id = d.id
                    /\ all_tracks'[n + 1].audio_quality = d.audioQuality
                    /\ ~d.parse_ok =>
                          /\ all_tracks'[n + 1].name = (IF d.title = NoText THEN <<"?">> ELSE d.title)
                          /\ all_tracks'[n + 1].album = (IF d.album = NoText THEN <<"?">> ELSE d.album)
                    /\ gpc' = "items"
                    /\ items' = Tail(items)]_vars
    /\ [][Len(all_tracks') >= Len(all_tracks)
            /\ SubSeq(all_tracks', 1, Len(all_tracks)) = all_tracks]_vars

\* C17 witness: the call returned a list whose first track is the record
\* that parse_track rejected, followed by a track collected after it.
C17_Witness ==
    /\ gpc = "return"
    /\ Len(all_tracks) >= 2
    /\ all_tracks[1].id = 3
    /\ all_tracks[1].album = <<"?">>
    /\ ~Catalog[3].parse_ok


(***************************************************************************)
(* The service behind the deduplication workflow: a page request at an     *)
(* offset answers the entries of the favorites list at [offset,            *)
(* offset+limit), or raises.  An entry of favs is a track id, or 0 for an  *)
(* entry whose record is gone (a ghost).                                   *)
(***************************************************************************)
FavItem(x) ==
    IF x = 0 THEN GhostItem
    ELSE IF x \in TrackIds THEN ItemOf(x)
    ELSE [item |-> UpgradeData(x)]

PageAt(list, off) ==
    LET last == IF off + LIMIT <= Len(list) THEN off + LIMIT ELSE Len(list)
    IN  [k \in 1..(IF last > off THEN last - off ELSE 0) |-> FavItem(list[off + k])]

\* favorites.remove_track(id) accepted by the service
RemoveFromFavs(list, id) == SelectSeq(list, LAMBDA x : x # id)

\* the favorites lists a run may start from
InitialFavs ==
    { <<1, 2>>, <<4, 1>>, <<1, 2, 3>>, <<1, 4, 2, 5>>, <<1, 0, 2, 3>>, <<1, 2, 4, 3, 5>> }

\* the rounds a run against a stale source may make
MaxRounds == 2

(***************************************************************************)
(* remove_duplicates_round and main of limpiar_duplicados_tidal.py         *)
(***************************************************************************)
\* line 377 / line 446: "if not duplicates"
NoGroups(d) == d = <<>>

\* mutant of Extras: the keeper is among the copies to remove
Extras_WithKeeper(group) == group

\* line 388: extras = group[1:]
Extras(group) == SubSeq(group, 2, Len(group))

\* mutant of LoopEnds: the loop also ends after a round that removed one copy
LoopEnds_AtMostOne(n) == n <= 1

\* mutant of LoopEnds: a round that removed nothing does not end the loop
LoopEnds_Never(n) == n < 0

\* line 496: "if eliminated == 0"
LoopEnds(n) == n = 0

\* lines 386, 394: the position after the copy e of group g
AdvancePosition ==
    IF e < Len(Extras(duplicates[g].group))
    THEN g' = g /\ e' = e + 1
    ELSE g' = g + 1 /\ e' = 1

\* mutant of OnRemoveError: the first failure ends the round
OnRemoveError_Abort(track) ==
    /\ all_errors' = Append(all_errors, track.id)
    /\ g' = Len(duplicates) + 1
    /\ e' = 1
    /\ UNCHANGED <<favs, all_removed, eliminated>>

\* lines 408-410: remove_track raised
OnRemoveError(track) ==
    /\ all_errors' = Append(all_errors, track.id)
    /\ AdvancePosition
    /\ UNCHANGED <<favs, all_removed, eliminated>>

\* mutant of OnRemoveOk: the removal is reported but the list keeps the track
OnRemoveOk_NotReflected(track, keeper) ==
    /\ all_removed' = Append(all_removed,
                             [round |-> round_num, removed |-> track.id, kept |-> keeper.id])
    /\ eliminated' = eliminated + 1
    /\ AdvancePosition
    /\ UNCHANGED <<favs, all_errors>>

\* lines 401-407: remove_track returned
OnRemoveOk(track, keeper) ==
    /\ favs' = RemoveFromFavs(favs, track.id)
    /\ all_removed' = Append(all_removed,
                             [round |-> round_num, removed |-> track.id, kept |-> keeper.id])
    /\ eliminated' = eliminated + 1
    /\ AdvancePosition
    /\ UNCHANGED all_errors

\* lines 436-448: the preview scan has returned
PreviewGrouping ==
    /\ pc = "preview"
    /\ gpc = "return"
    /\ gpc' = "idle"
    /\ \E d \in {find_duplicates(all_tracks)} :
          /\ duplicates' = d
          /\ pc' = IF NoGroups(d) THEN "clean_exit" ELSE "confirm"
    /\ UNCHANGED <<favs, g, e, eliminated, round_num, all_removed, all_errors, removeLog>>
    /\ UNCHANGED <<offset, consecutive_empty, all_tracks, seen_ids, skipped_unavailable,
                   items, nreq, lastResp, prevResp, repeatDropped>>
    /\ UNCHANGED notDedup

\* lines 480-482: the user declines
ConfirmNo ==
    /\ pc = "confirm"
    /\ pc' = "cancelled"
    /\ UNCHANGED <<favs, duplicates, g, e, eliminated, round_num, all_removed, all_errors,
                   removeLog>>
    /\ UNCHANGED collectorVars
    /\ UNCHANGED notDedup

\* lines 473-493, 364-369: the user confirms; round 1 starts its collection
ConfirmYes ==
    /\ pc = "confirm"
    /\ all_removed' = <<>>
    /\ all_errors' = <<>>
    /\ round_num' = 1
    /\ pc' = "round"
    /\ CollectorStart
    /\ UNCHANGED <<favs, duplicates, g, e, eliminated, removeLog>>
    /\ UNCHANGED notDedup

\* lines 375-385: the collection of the round has returned
RoundGrouping ==
    /\ pc = "round"
    /\ gpc = "return"
    /\ gpc' = "idle"
    /\ \E d \in {find_duplicates(all_tracks)} :
          /\ duplicates' = d
          /\ pc' = IF NoGroups(d) THEN "loop_test" ELSE "removing"
    /\ eliminated' = 0
    /\ g' = 1
    /\ e' = 1
    /\ UNCHANGED <<favs, round_num, all_removed, all_errors, removeLog>>
    /\ UNCHANGED <<offset, consecutive_empty, all_tracks, seen_ids, skipped_unavailable,
                   items, nreq, lastResp, prevResp, repeatDropped>>
    /\ UNCHANGED notDedup

\* lines 394-411: one removal attempt; ok says whether remove_track returned
RemoveAttempt(ok) ==
    /\ pc = "removing"
    /\ g <= Len(duplicates)
    /\ LET group == duplicates[g].group
           keeper == group[1]
           track == Extras(group)[e]
       IN  /\ removeLog' = Append(removeLog, [round |-> round_num, id |-> track.id, ok |-> ok])
           /\ IF ok THEN OnRemoveOk(track, keeper) ELSE OnRemoveError(track)
    /\ UNCHANGED <<pc, duplicates, round_num>>
    /\ UNCHANGED collectorVars
    /\ UNCHANGED notDedup

RemoveSucceeds == RemoveAttempt(TRUE)
RemoveFails == RemoveAttempt(FALSE)

\* line 413: return eliminated
RoundReturn ==
    /\ pc = "removing"
    /\ g > Len(duplicates)
    /\ pc' = "loop_test"
    /\ UNCHANGED <<favs, duplicates, g, e, eliminated, round_num, all_removed, all_errors,
                   removeLog>>
    /\ UNCHANGED collectorVars
    /\ UNCHANGED notDedup

\* lines 496-500: the loop is left
LoopBreak ==
    /\ pc = "loop_test"
    /\ LoopEnds(eliminated)
    /\ pc' = "summary"
    /\ UNCHANGED <<favs, duplicates, g, e, eliminated, round_num, all_removed, all_errors,
                   removeLog>>
    /\ UNCHANGED collectorVars
    /\ UNCHANGED notDedup

\* lines 502-507, 364-369: the next round starts its collection
LoopContinue ==
    /\ pc = "loop_test"
    /\ ~LoopEnds(eliminated)
    /\ round_num' = round_num + 1
    /\ pc' = "round"
    /\ CollectorStart
    /\ UNCHANGED <<favs, duplicates, g, e, eliminated, all_removed, all_errors, removeLog>>
    /\ UNCHANGED notDedup

\* the page request of a running collection is answered from the list
PageServed == RequestPage(PageResp(PageAt(favs, offset))) /\ UNCHANGED <<mainVars, notDedup>>
\* the page request of a running collection raises
PageFails == RequestPage(ErrorResp) /\ UNCHANGED <<mainVars, notDedup>>

Init ==
    /\ favs \in InitialFavs
    /\ pc = "preview"
    /\ duplicates = <<>>
    /\ g = 0
    /\ e = 0
    /\ eliminated = 0
    /\ round_num = 0
    /\ all_removed = <<>>
    /\ all_errors = <<>>
    /\ removeLog = <<>>
    /\ gpc = "request"
    /\ offset = 0
    /\ consecutive_empty = 0
    /\ all_tracks = <<>>
    /\ seen_ids = {}
    /\ skipped_unavailable = 0
    /\ items = <<>>
    /\ nreq = 0
    /\ lastResp = "none"
    /\ prevResp = "none"
    /\ repeatDropped = FALSE
    /\ PureIdle
    /\ UpgradeIdle
    /\ SyncIdle

Next ==
    \/ PageServed
    \/ PageFails
    \/ CollectItem
    \/ CollectEndOfPage
    \/ PreviewGrouping
    \/ ConfirmNo
    \/ ConfirmYes
    \/ RoundGrouping
    \/ RemoveSucceeds
    \/ RemoveFails
    \/ RoundReturn
    \/ LoopBreak
    \/ LoopContinue

Spec == Init /\ [][Next]_vars



(***************************************************************************)
(* Claims about the deduplication workflow, checked under Spec.            *)
(***************************************************************************)
\* the tracks the favorites list holds (a ghost entry holds none)
RemoteTracks ==
    LET ids == SelectSeq(favs, LAMBDA x : x # 0)
    IN  [i \in 1..Len(ids) |-> parse_track_safe(Catalog[ids[i]])]

\* the removal attempts of round r, in the order they were made
RoundLog(r) == SelectSeq(removeLog, LAMBDA x : x.round = r)

\* the number of removals of round r that the service accepted
OkCount(r) == Len(SelectSeq(RoundLog(r), LAMBDA x : x.ok))

\* the ids of the copies to remove of the groups of d, group after group
RECURSIVE AllExtras(_)
AllExtras(d) ==
    IF d = <<>> THEN <<>>
    ELSE IdsOf(SubSeq(Head(d).group, 2, Len(Head(d).group))) \o AllExtras(Tail(d))

\* the ids of the attempts of a log
AttemptIds(log) == [i \in 1..Len(log) |-> log[i].id]

\* has the loop of main been entered
InLoop == pc \in {"round", "removing", "loop_test", "summary"}

\* C1 (as claimed): when the loop has ended, the favorites list holds no
\* two tracks with the same normalized (title, artist) key.
C1_ListCleanAtEnd == pc = "summary" => find_duplicates(RemoteTracks) = <<>>

\* C6 (as claimed): the program never concludes "no duplicates" (at the
\* preview or at the end of the loop) from a collection that a page-request
\* error cut short.
C6_PartialNeverClean ==
    (pc \in {"summary", "clean_exit"} /\ NoGroups(duplicates)) => lastResp # "error"

\* C7: the loop continues after every round that removed at least one copy
\* and ends after the first round that removed none: every round before the
\* current one removed a copy, the step after a round leaves the loop exactly
\* when the round removed nothing, and the round count of the summary is 1 +
\* the number of rounds that removed a copy.
C7_LoopEndsAfterFirstZeroRound ==
    /\ [](InLoop => \A r \in 1..(round_num - 1) : OkCount(r) > 0)
    /\ [](pc = "summary" =>
            /\ OkCount(round_num) = 0
            /\ round_num = 1 + Cardinality({r \in 1..round_num : OkCount(r) > 0}))
    /\ [][pc = "loop_test" =>
            /\ (pc' = "summary" <=> OkCount(round_num) = 0)
            /\ (pc' = "round" <=> OkCount(round_num) > 0)
            /\ (pc' = "round" => round_num' = round_num + 1)]_vars

\* C7 witness: one round removed every redundant copy without an error, the
\* second round removed nothing, and the summary reports 2 rounds.
C7_Witness ==
    /\ pc = "summary"
    /\ round_num = 2
    /\ OkCount(1) > 0
    /\ all_errors = <<>>
    /\ lastResp = "empty"
    /\ find_duplicates(RemoteTracks) = <<>>

\* C8 (as claimed): a round whose grouping found no group does not end the
\* loop.
C8_ZeroGroupsDoNotStop ==
    [][(pc = "loop_test" /\ NoGroups(duplicates)) => pc' # "summary"]_vars

\* C8 (amended): a round whose grouping found no group makes no removal
\* attempt, returns 0, and the loop ends after it.
C8_ZeroGroupsEndLoop ==
    /\ []((pc = "loop_test" /\ NoGroups(duplicates)) =>
            (eliminated = 0 /\ RoundLog(round_num) = <<>>))
    /\ [][(pc = "loop_test" /\ NoGroups(duplicates)) =>
            (pc' = "summary" /\ round_num' = round_num)]_vars

\* C8 witness: the second round collected the whole list, found no group,
\* and the loop ended.
C8_Witness ==
    /\ pc = "summary"
    /\ round_num = 2
    /\ NoGroups(duplicates)
    /\ lastResp = "empty"
    /\ prevResp = "empty"

\* C9: within a round the removal attempts are, in order, the copies at
\* positions 1..n of every group, each once, whatever the earlier attempts
\* answered; the value the round returns is the number of accepted removals
\* and every rejected removal is in the error list.
C9_EveryCopyAttemptedOnce ==
    /\ pc = "removing" =>
          /\ Len(RoundLog(round_num)) <= Len(AllExtras(duplicates))
          /\ AttemptIds(RoundLog(round_num))
                = SubSeq(AllExtras(duplicates), 1, Len(RoundLog(round_num)))
    /\ pc = "loop_test" =>
          /\ AttemptIds(RoundLog(round_num)) = AllExtras(duplicates)
          /\ eliminated = OkCount(round_num)
    /\ InLoop =>
          /\ all_errors = AttemptIds(SelectSeq(removeLog, LAMBDA x : ~x.ok))
          /\ Len(all_removed) = Len(SelectSeq(removeLog, LAMBDA x : x.ok))

\* C9 witness: a round has returned in which a removal was rejected and a
\* later removal was accepted.
C9_Witness ==
    /\ pc = "loop_test"
    /\ \E i, j \in 1..Len(removeLog) :
          /\ i < j
          /\ removeLog[i].round = round_num /\ ~removeLog[i].ok
          /\ removeLog[j].round = round_num /\ removeLog[j].ok

\* C10: every removal attempt is on a track at a position 1..n of a group of
\* the current round and never on the keeper of a group; the keepers and the
\* collected tracks outside every group stay in the favorites list.
C10_KeeperNeverRemoved ==
    /\ [][removeLog' # removeLog =>
            LET x == removeLog'[Len(removeLog')]
            IN  /\ x.round = round_num
                /\ \E k \in 1..Len(duplicates) :
                      \E i \in 2..Len(duplicates[k].group) : duplicates[k].group[i].id = x.id
                /\ \A k \in 1..Len(duplicates) : duplicates[k].group[1].id # x.id]_vars
    /\ [](pc \in {"removing", "loop_test"} =>
            /\ \A k \in 1..Len(duplicates) : duplicates[k].group[1].id \in Range(favs)
            /\ \A i \in 1..Len(all_tracks) :
                  (\A k \in 1..Len(duplicates) :
                      all_tracks[i] \notin Range(duplicates[k].group))
                  => all_tracks[i].id \in Range(favs))

\* C10 witness: a round that removed a copy has returned, and the list it
\* collected held a track outside every group.
C10_Witness ==
    /\ pc = "loop_test"
    /\ eliminated >= 1
    /\ \E i \in 1..Len(all_tracks) :
          \A k \in 1..Len(duplicates) : all_tracks[i] \notin Range(duplicates[k].group)


(***************************************************************************)
(* find_duplicates as a function of its argument: the lists it is applied  *)
(* to are the lists of at most MaxGroup tracks of RankTracks, in every     *)
(* order, and some longer lists.                                           *)
(***************************************************************************)
\* the lists of n distinct elements of U
RECURSIVE ListsOfLen(_, _)
ListsOfLen(U, n) ==
    IF n = 0 THEN {<<>>}
    ELSE UNION {{Append(q, t) : t \in U \ Range(q)} : q \in ListsOfLen(U, n - 1)}

\* lists with two groups and tracks outside every group, by the ids of the
\* tracks
TwoGroupLists ==
    { <<14, 1, 15, 2>>,
      <<2, 15, 13, 14, 1>>,
      <<15, 4, 14, 3, 5>>,
      <<1, 2, 14, 15>> }

\* the arguments of find_duplicates, by the ids of the tracks: the lists of
\* at most n distinct tracks and the lists above
TrackLists(n) ==
    TwoGroupLists \cup UNION {ListsOfLen(DOMAIN RankTracks, k) : k \in 0..n}

\* the list of the tracks of the given ids
RECURSIVE TracksOf(_)
TracksOf(ids) ==
    IF ids = <<>> THEN <<>> ELSE <<RankTracks[Head(ids)]>> \o TracksOf(Tail(ids))

GroupInit ==
    /\ \E ids \in TrackLists(MaxGroup) : all_tracks = TracksOf(ids)
    /\ pc = "tracks"
    /\ favs = <<>>
    /\ duplicates = <<>>
    /\ g = 0
    /\ e = 0
    /\ eliminated = 0
    /\ round_num = 0
    /\ all_removed = <<>>
    /\ all_errors = <<>>
    /\ removeLog = <<>>
    /\ gpc = "idle"
    /\ offset = 0
    /\ consecutive_empty = 0
    /\ seen_ids = {}
    /\ skipped_unavailable = 0
    /\ items = <<>>
    /\ nreq = 0
    /\ lastResp = "none"
    /\ prevResp = "none"
    /\ repeatDropped = FALSE
    /\ PureIdle
    /\ UpgradeIdle
    /\ SyncIdle

\* line 375 / line 444: duplicates = find_duplicates(tracks)
GroupTracks ==
    /\ pc = "tracks"
    /\ duplicates' = find_duplicates(all_tracks)
    /\ pc' = "grouped"
    /\ UNCHANGED <<favs, g, e, eliminated, round_num, all_removed, all_errors, removeLog>>
    /\ UNCHANGED <<collectorVars, notDedup>>

GroupNext == GroupTracks

SpecGroup == GroupInit /\ [][GroupNext]_vars

(***************************************************************************)
(* Claims about find_duplicates and its ranking, checked under SpecGroup.  *)
(***************************************************************************)
\* does a come before b in the order of the sort key
KeyLess(a, b) == TupleLess(SortKeyOf(a), SortKeyOf(b))

\* the tracks of S from the least key to the greatest
RECURSIVE OrderOf(_)
OrderOf(S) ==
    IF S = {} THEN <<>>
    ELSE LET m == CHOOSE a \in S : \A b \in S \ {a} : KeyLess(a, b)
         IN  <<m>> \o OrderOf(S \ {m})

\* C11: on tracks with distinct ids the sort key is a strict total order
\* (irreflexive, transitive, any two distinct tracks ordered one way only);
\* every group is strictly increasing in it, its keeper is below every
\* other member, and the group is the list that depends only on the set of
\* its members, not on the order of the input.
C11_StrictTotalOrder ==
    pc = "grouped" =>
        LET T == Range(all_tracks)
        IN  /\ \A a \in T : ~KeyLess(a, a)
            /\ \A a, b \in T : a # b => (KeyLess(a, b) # KeyLess(b, a))
            /\ \A a, b, c \in T : (KeyLess(a, b) /\ KeyLess(b, c)) => KeyLess(a, c)
            /\ \A k \in 1..Len(duplicates) :
                  LET grp == duplicates[k].group
                  IN  /\ \A n \in 1..(Len(grp) - 1) : KeyLess(grp[n], grp[n + 1])
                      /\ \A n \in 2..Len(grp) : KeyLess(grp[1], grp[n])
                      /\ Range(grp) = {t \in T : GroupKeyOf(t) = duplicates[k].key}
                      /\ grp = OrderOf(Range(grp))

\* C11 witness: a group of three tracks was sorted into an order that is not
\* the order of the input, two of its tracks differing in the id only.
C11_Witness ==
    /\ pc = "grouped"
    /\ IdsOf(all_tracks) = <<12, 4, 1>>
    /\ Len(duplicates) = 1
    /\ IdsOf(duplicates[1].group) = <<4, 1, 12>>

\* the names of the five quality tiers
TierNames == {"HI_RES_LOSSLESS", "HI_RES", "LOSSLESS", "HIGH", "LOW"}

\* C12: in every group the quality rank never increases from one member to
\* the next, so the keeper has the greatest rank whatever the other markers
\* and ids are; and a track whose quality is no tier name ranks below every
\* track whose quality is one.
C12_QualityDominates ==
    pc = "grouped" =>
        /\ \A k \in 1..Len(duplicates) :
              LET grp == duplicates[k].group
              IN  \A n, m \in 1..Len(grp) :
                      n < m => quality_rank(grp[n]) >= quality_rank(grp[m])
        /\ \A a, b \in Range(all_tracks) :
              (a.audio_quality \notin TierNames /\ b.audio_quality \in TierNames)
                  => quality_rank(a) < quality_rank(b)

\* C12 witness: a LOSSLESS track without a marker, a HIGH track remastered
\* in 2013 and a track without quality were grouped: the LOSSLESS one is kept
\* and the one without quality is last.
C12_Witness ==
    /\ pc = "grouped"
    /\ IdsOf(all_tracks) = <<13, 2, 1>>
    /\ Len(duplicates) = 1
    /\ IdsOf(duplicates[1].group) = <<1, 2, 13>>

\* the scores the ranking rules give each track of RankTracks: remaster
\* (the year, 0 for a remaster without year, -1 for none), explicit (1, 0,
\* -1 for explicit, unmarked, clean), channel (1, 0, -1 for stereo,
\* unmarked, mono), edition (1, 0, -1 for album version, unmarked, single
\* version)
ExpectedScores ==
    [i \in 1..15 |->
        CASE i = 1 -> <<-1, 0, 0, 0>>
          [] i = 2 -> <<2013, 0, 0, 0>>
          [] i = 3 -> <<1999, 0, 0, 0>>
          [] i = 4 -> <<2013, 0, 0, 0>>
          [] i = 5 -> <<0, 0, 0, 0>>
          [] i = 6 -> <<-1, 1, 0, 0>>
          [] i = 7 -> <<-1, -1, 0, 0>>
          [] i = 8 -> <<-1, 0, 1, 0>>
          [] i = 9 -> <<-1, 0, -1, 0>>
          [] i = 10 -> <<-1, 0, 0, 1>>
          [] i = 11 -> <<-1, 0, 0, -1>>
          [] i = 12 -> <<-1, 0, 0, 0>>
          [] i = 13 -> <<-1, 0, 0, 0>>
          [] i = 14 -> <<-1, 0, 0, 0>>
          [] i = 15 -> <<-1, 0, 0, 0>>]

\* a is ahead of b: a greater score at the first criterion where they
\* differ, or the smaller id when the four scores are equal
ScoresAhead(a, b) ==
    LET sa == ExpectedScores[a.id]
        sb == ExpectedScores[b.id]
    IN  \/ \E n \in 1..4 : sa[n] > sb[n] /\ \A m \in 1..(n - 1) : sa[m] = sb[m]
        \/ (sa = sb /\ a.id < b.id)

\* is the track with id x before the track with id y in the group
IdBefore(grp, x, y) ==
    \E n, m \in 1..Len(grp) : n < m /\ grp[n].id = x /\ grp[m].id = y

\* C13: the key of a track is its negated quality rank, its four negated
\* scores and its id; two members of a group with the same quality rank are
\* in the order of the scores (descending, first difference decides) and
\* then of the ids (ascending).  So at equal tier: Remastered 2013 before
\* Remastered 1999 before an undated remaster before no remaster, Explicit
\* before Clean, and the smaller id first when nothing else differs.
C13_VersionOrder ==
    pc = "grouped" =>
        /\ \A t \in Range(all_tracks) :
              LET s == ExpectedScores[t.id]
              IN  SortKeyOf(t) = <<-quality_rank(t), -s[1], -s[2], -s[3], -s[4], t.id>>
        /\ \A k \in 1..Len(duplicates) :
              LET grp == duplicates[k].group
                  ids == Range(IdsOf(grp))
              IN  /\ \A n, m \in 1..Len(grp) :
                        (n < m /\ quality_rank(grp[n]) = quality_rank(grp[m]))
                            => ScoresAhead(grp[n], grp[m])
                  /\ {4, 3} \subseteq ids => IdBefore(grp, 4, 3)
                  /\ {3, 5} \subseteq ids => IdBefore(grp, 3, 5)
                  /\ {5, 1} \subseteq ids => IdBefore(grp, 5, 1)
                  /\ {6, 7} \subseteq ids => IdBefore(grp, 6, 7)
                  /\ {1, 12} \subseteq ids => IdBefore(grp, 1, 12)

\* C13 witness: an undated remaster, a 1999 remaster and a 2013 remaster of
\* the same tier were grouped and the 2013 one is kept.
C13_Witness ==
    /\ pc = "grouped"
    /\ IdsOf(all_tracks) = <<5, 3, 4>>
    /\ Len(duplicates) = 1
    /\ IdsOf(duplicates[1].group) = <<4, 3, 5>>

\* C16: find_duplicates returns the partition of the duplicated part of its
\* argument: every group has at least two members and no member twice, its
\* members are exactly the tracks of the argument with the key of the group,
\* two groups have different keys and no track in common, a track whose key
\* no other track has is in no group; and the argument is left as it was.
C16_GroupsPartition ==
    /\ [](pc = "grouped" =>
            LET T == Range(all_tracks)
            IN  /\ \A k \in 1..Len(duplicates) :
                      LET grp == duplicates[k].group
                      IN  /\ Len(grp) >= 2
                          /\ Cardinality(Range(grp)) = Len(grp)
                          /\ \A n \in 1..Len(grp) : GroupKeyOf(grp[n]) = duplicates[k].key
                          /\ Range(grp) = {t \in T : GroupKeyOf(t) = duplicates[k].key}
                /\ \A k, l \in 1..Len(duplicates) :
                      k # l => /\ duplicates[k].key # duplicates[l].key
                               /\ Range(duplicates[k].group) \cap Range(duplicates[l].group) = {}
                /\ \A t \in T :
                      (\A u \in T \ {t} : GroupKeyOf(u) # GroupKeyOf(t))
                          => \A k \in 1..Len(duplicates) : t \notin Range(duplicates[k].group))
    /\ [][pc = "tracks" => all_tracks' = all_tracks]_vars

\* C16 witness: a list of five tracks was split into a group of three and a
\* group of two, in the order in which their keys first appear.
C16_Witness ==
    /\ pc = "grouped"
    /\ IdsOf(all_tracks) = <<2, 15, 13, 14, 1>>
    /\ Len(duplicates) = 2
    /\ IdsOf(duplicates[1].group) = <<1, 2, 13>>
    /\ IdsOf(duplicates[2].group) = <<14, 15>>

(***************************************************************************)
(* normalize as a function of its argument: the texts it is applied to are *)
(* the titles of at most MaxWords words of Words joined by a separator,    *)
(* and the titles of NamedInputs.                                          *)
(***************************************************************************)
\* the deduplication program is not running
DedupIdle ==
    /\ favs = <<>>
    /\ pc = "idle"
    /\ duplicates = <<>>
    /\ g = 0
    /\ e = 0
    /\ eliminated = 0
    /\ round_num = 0
    /\ all_removed = <<>>
    /\ all_errors = <<>>
    /\ removeLog = <<>>
    /\ gpc = "idle"
    /\ offset = 0
    /\ consecutive_empty = 0
    /\ all_tracks = <<>>
    /\ seen_ids = {}
    /\ skipped_unavailable = 0
    /\ items = <<>>
    /\ nreq = 0
    /\ lastResp = "none"
    /\ prevResp = "none"
    /\ repeatDropped = FALSE

Words == <<<<"R","a","d","i","o">>,
           <<"E","d","i","t">>,
           <<"O","d","e">>,
           <<"L","i","v","e">>>>

Separators == {<<" ">>, <<"-">>}

\* the titles of n words
RECURSIVE TitlesOfWords(_)
TitlesOfWords(n) ==
    IF n = 1 THEN Range(Words)
    ELSE {t \o s \o w : t \in TitlesOfWords(n - 1), s \in Separators, w \in Range(Words)}

NamedInputs ==
    { <<"H","o","t","e","l"," ","C","a","l","i","f","o","r","n","i","a"," ","(","R","e","m","a","s","t","e","r","e","d"," ","2","0","1","3",")">>,
      <<"h","o","t","e","l"," ","c","a","l","i","f","o","r","n","i","a">>,
      <<"O","d","e"," ","[","D","e","l","u","x","e","]"," ","-"," ","2","5","t","h"," ","A","n","n","i","v","e","r","s","a","r","y">> }

\* the arguments of normalize
NormalizeInputs == NamedInputs \cup UNION {TitlesOfWords(n) : n \in 1..MaxWords}

NormalizeInit ==
    /\ raw_text \in NormalizeInputs
    /\ norm_text = NoText
    /\ DedupIdle
    /\ UpgradeIdle
    /\ SyncIdle

\* lines 169-183: one call of normalize
NormalizeText ==
    /\ norm_text = NoText
    /\ norm_text' = normalize(raw_text)
    /\ UNCHANGED <<raw_text, notPure>>

NormalizeNext == NormalizeText

SpecNormalize == NormalizeInit /\ [][NormalizeNext]_vars

(***************************************************************************)
(* Claims about normalize, checked under SpecNormalize.                    *)
(***************************************************************************)
\* the text with every lower-case letter in upper case
UpperCase(text) ==
    [i \in 1..Len(text) |->
        IF IsLower(text[i])
        THEN UpperLetters[CHOOSE k \in 1..26 : LowerLetters[k] = text[i]]
        ELSE text[i]]

\* the text with every hyphen replaced by a space
HyphensAsSpaces(text) ==
    [i \in 1..Len(text) |-> IF text[i] = "-" THEN " " ELSE text[i]]

\* annotations a title may carry: a parenthesized and a bracketed span, a
\* remaster tag, a year, an ordinal, an edition word
Annotations ==
    { <<" ","(","R","e","m","a","s","t","e","r","e","d"," ","2","0","1","3",")">>,
      <<" ","[","D","e","l","u","x","e","]">>,
      <<" ","-"," ","R","e","m","a","s","t","e","r","e","d">>,
      <<" ","2","0","1","3">>,
      <<" ","2","5","t","h">>,
      <<" ","-"," ","A","l","b","u","m"," ","V","e","r","s","i","o","n">> }

\* C14 (as claimed): the value normalize returns is a fixed point of
\* normalize.
C14_Idempotent == norm_text # NoText => normalize(norm_text) = norm_text

\* C15 (as claimed): a title and the same title in upper case, with spaces
\* for its hyphens, or followed by an annotation have the same key, and
\* "Hotel California (Remastered 2013)" has the key of "hotel california".
C15_Insensitive ==
    norm_text # NoText =>
        /\ normalize(UpperCase(raw_text)) = norm_text
        /\ \A a \in Annotations : normalize(raw_text \o a) = norm_text
        /\ raw_text = <<"H","o","t","e","l"," ","C","a","l","i","f","o","r","n","i","a"," ","(","R","e","m","a","s","t","e","r","e","d"," ","2","0","1","3",")">>
              => norm_text = normalize(
                    <<"h","o","t","e","l"," ","c","a","l","i","f","o","r","n","i","a">>)
        /\ normalize(HyphensAsSpaces(raw_text)) = norm_text

(***************************************************************************)
(* mejorar_calidad_tidal.py: search_better_version and process_tracks       *)
(***************************************************************************)
TOP_QUALITIES_Empty == {}

\* lines 30, 33: the pauses after a search and after a change of the
\* favorites, in tenths of a second
RATE_LIMIT_DELAY == 5
MODIFY_DELAY == 10

\* line 60
TOP_QUALITIES == {"HI_RES_LOSSLESS", "HI_RES"}

\* lines 268-274, 296-300: the normalized artist name and title of a track
SearchKey(track) ==
    <<normalize(IF track.artist # NoText THEN track.artist ELSE <<>>),
      normalize(OrText(track.name, <<>>))>>

\* SearchKey of the tracks of the upgrade runs, computed once
RECURSIVE SearchKeyMemoFrom(_)
SearchKeyMemoFrom(k) ==
    IF k > Len(UpgradeTracks) THEN <<>>
    ELSE <<SearchKey(UpgradeTracks[k])>> \o SearchKeyMemoFrom(k + 1)

SearchKeyMemo == SearchKeyMemoFrom(1)

SearchKeyOf(t) ==
    IF \E k \in 1..Len(UpgradeTracks) : UpgradeTracks[k] = t
    THEN SearchKeyMemo[CHOOSE k \in 1..Len(UpgradeTracks) : UpgradeTracks[k] = t]
    ELSE SearchKey(t)

Improves_OrEqual(candidate, best_rank) == quality_rank(candidate) >= best_rank

\* line 304: "if cand_rank > best_rank"
Improves(candidate, best_rank) == quality_rank(candidate) > best_rank

\* lines 289-306: the loop over the candidates, from the k-th on
RECURSIVE BestFrom(_, _, _, _, _)
BestFrom(candidates, k, key, best, best_rank) ==
    IF k > Len(candidates) THEN best
    ELSE LET candidate == candidates[k] IN
         IF candidate.audio_quality = None
         THEN BestFrom(candidates, k + 1, key, best, best_rank)
         ELSE IF SearchKeyOf(candidate)[1] # key[1]
         THEN BestFrom(candidates, k + 1, key, best, best_rank)
         ELSE IF SearchKeyOf(candidate)[2] # key[2]
         THEN BestFrom(candidates, k + 1, key, best, best_rank)
         ELSE IF Improves(candidate, best_rank)
         THEN BestFrom(candidates, k + 1, key, candidate, quality_rank(candidate))
         ELSE BestFrom(candidates, k + 1, key, best, best_rank)

\* resp is the answer of session.search: an exception or a list of tracks
search_better_version(track, resp) ==
    IF resp.kind = "error" THEN Nothing
    ELSE BestFrom(resp.tracks, 1, SearchKeyOf(track), Nothing, quality_rank(track))

\* favorites.add_track on the service
AddToFavs(list, id) == IF id \in Range(list) THEN list ELSE <<id>> \o list

\* the lists process_tracks is given
InitialUpgradeLists ==
    { <<UpgradeTracks[1]>>,
      <<UpgradeTracks[2], UpgradeTracks[1]>>,
      <<UpgradeTracks[1], UpgradeTracks[3], UpgradeTracks[4]>>,
      <<UpgradeTracks[4], UpgradeTracks[2]>>,
      <<UpgradeTracks[3], UpgradeTracks[2]>> }

\* what the search can find
SearchUniverse == {UpgradeTracks[k] : k \in 5..Len(UpgradeTracks)}

RECURSIVE ListsUpTo(_, _)
ListsUpTo(U, n) == IF n = 0 THEN {<<>>} ELSE ListsOfLen(U, n) \cup ListsUpTo(U, n - 1)

SearchAnswers == {[kind |-> "ok", tracks |-> l] : l \in ListsUpTo(SearchUniverse, MaxResults)}

UpgradeInit ==
    /\ up_tracks \in InitialUpgradeLists
    /\ up_favs = [k \in 1..Len(up_tracks) |-> up_tracks[k].id]
    /\ up_pc = "confirm"
    /\ up_confirm = ""
    /\ up_i = 0
    /\ results = [kind |-> "none"]
    /\ better = Nothing
    /\ improved = 0
    /\ skipped_top = 0
    /\ log_entries = <<>>
    /\ errors = <<>>
    /\ calls = <<>>
    /\ DedupIdle
    /\ PureIdle
    /\ SyncIdle

\* the track of the current iteration
UpTrack == up_tracks[up_i]

\* lines 424-425: upgradeable = len(tracks) - already_top
Upgradeable(tracks) ==
    Len(tracks) - Len(SelectSeq(tracks, LAMBDA t : get_quality(t) \in TOP_QUALITIES))

\* what may be typed at the prompt of line 432
Answers == {"si", "no", ""}

Accepts_Anything(answer) == TRUE

\* line 434 (the answer is stripped and lower-cased by line 432)
Accepts(answer) == answer \in {"si", "sí", "yes", "s", "y"}

\* lines 427-429: nothing to verify, main returns before the prompt
UpAllTop ==
    /\ up_pc = "confirm"
    /\ Upgradeable(up_tracks) = 0
    /\ up_pc' = "all_top"
    /\ UNCHANGED <<up_favs, up_confirm, up_tracks, up_i, results, better, improved,
                   skipped_top, log_entries, errors, calls>>
    /\ UNCHANGED notUpgrade

\* lines 431-443: the prompt is answered; process_tracks starts when the
\* answer is accepted, main returns otherwise
UpConfirm(answer) ==
    /\ up_pc = "confirm"
    /\ Upgradeable(up_tracks) # 0
    /\ up_confirm' = answer
    /\ IF Accepts(answer)
       THEN up_pc' = "next" /\ up_i' = 1
       ELSE up_pc' = "cancelled" /\ up_i' = up_i
    /\ UNCHANGED <<up_favs, up_tracks, results, better, improved, skipped_top,
                   log_entries, errors, calls>>
    /\ UNCHANGED notUpgrade

UpConfirmYes == \E answer \in {a \in Answers : Accepts(a)} : UpConfirm(answer)
UpConfirmNo == \E answer \in {a \in Answers : ~Accepts(a)} : UpConfirm(answer)

\* lines 333-336
UpSkipTop ==
    /\ up_pc = "next"
    /\ up_i <= Len(up_tracks)
    /\ get_quality(UpTrack) \in TOP_QUALITIES
    /\ skipped_top' = skipped_top + 1
    /\ up_i' = up_i + 1
    /\ UNCHANGED <<up_favs, up_pc, up_tracks, results, better, improved,
                   log_entries, errors, calls>>
    /\ UNCHANGED <<up_confirm, notUpgrade>>

\* line 338
UpSearch(resp) ==
    /\ up_pc = "next"
    /\ up_i <= Len(up_tracks)
    /\ get_quality(UpTrack) \notin TOP_QUALITIES
    /\ results' = resp
    /\ better' = search_better_version(UpTrack, resp)
    /\ calls' = Append(calls, [op |-> "search", track |-> up_i, id |-> UpTrack.id,
                               ok |-> resp.kind # "error", delay |-> RATE_LIMIT_DELAY])
    /\ up_pc' = "searched"
    /\ UNCHANGED <<up_favs, up_tracks, up_i, improved, skipped_top, log_entries, errors>>
    /\ UNCHANGED <<up_confirm, notUpgrade>>

SearchAnswered == \E resp \in SearchAnswers : UpSearch(resp)
SearchRaises == UpSearch([kind |-> "error"])

\* lines 341-343
UpNoBetter ==
    /\ up_pc = "searched"
    /\ better = Nothing
    /\ up_pc' = "next"
    /\ up_i' = up_i + 1
    /\ UNCHANGED <<up_favs, up_tracks, results, better, improved, skipped_top,
                   log_entries, errors, calls>>
    /\ UNCHANGED <<up_confirm, notUpgrade>>

OnAddError_Proceed == [pc |-> "remove", i |-> up_i]

\* lines 352-355: the handler ends with "continue"
OnAddError == [pc |-> "next", i |-> up_i + 1]

\* lines 349-351
UpAddSucceeds ==
    /\ up_pc = "searched"
    /\ better # Nothing
    /\ up_favs' = AddToFavs(up_favs, better.id)
    /\ calls' = Append(calls, [op |-> "add", track |-> up_i, id |-> better.id, ok |-> TRUE,
                               delay |-> MODIFY_DELAY])
    /\ up_pc' = "remove"
    /\ UNCHANGED <<up_tracks, up_i, results, better, improved, skipped_top,
                   log_entries, errors>>
    /\ UNCHANGED <<up_confirm, notUpgrade>>

\* lines 349-355
UpAddFails ==
    /\ up_pc = "searched"
    /\ better # Nothing
    /\ calls' = Append(calls, [op |-> "add", track |-> up_i, id |-> better.id, ok |-> FALSE,
                               delay |-> 0])
    /\ errors' = Append(errors, [kind |-> "ADD FAIL", id |-> UpTrack.id])
    /\ up_pc' = OnAddError.pc
    /\ up_i' = OnAddError.i
    /\ UNCHANGED <<up_favs, up_tracks, results, better, improved, skipped_top, log_entries>>
    /\ UNCHANGED <<up_confirm, notUpgrade>>

\* lines 358-367
UpRemoveSucceeds ==
    /\ up_pc = "remove"
    /\ up_favs' = RemoveFromFavs(up_favs, UpTrack.id)
    /\ calls' = Append(calls, [op |-> "remove", track |-> up_i, id |-> UpTrack.id, ok |-> TRUE,
                               delay |-> MODIFY_DELAY])
    /\ log_entries' = Append(log_entries, [id |-> UpTrack.id, before |-> get_quality(UpTrack),
                                           now |-> better.id])
    /\ improved' = improved + 1
    /\ up_pc' = "next"
    /\ up_i' = up_i + 1
    /\ UNCHANGED <<up_tracks, results, better, skipped_top, errors>>
    /\ UNCHANGED <<up_confirm, notUpgrade>>

OnUpRemoveError_Rollback ==
    [favs |-> RemoveFromFavs(up_favs, better.id), improved |-> improved]

\* lines 368-372: the handler only records the failure; the replacement
\* added before stays
OnUpRemoveError == [favs |-> up_favs, improved |-> improved]

\* lines 358-372
UpRemoveFails ==
    /\ up_pc = "remove"
    /\ calls' = Append(calls, [op |-> "remove", track |-> up_i, id |-> UpTrack.id, ok |-> FALSE,
                               delay |-> 0])
    /\ errors' = Append(errors, [kind |-> "REMOVE FAIL", id |-> UpTrack.id])
    /\ up_favs' = OnUpRemoveError.favs
    /\ improved' = OnUpRemoveError.improved
    /\ up_pc' = "next"
    /\ up_i' = up_i + 1
    /\ UNCHANGED <<up_tracks, results, better, skipped_top, log_entries>>
    /\ UNCHANGED <<up_confirm, notUpgrade>>

\* line 374
UpReturn ==
    /\ up_pc = "next"
    /\ up_i > Len(up_tracks)
    /\ up_pc' = "done"
    /\ UNCHANGED <<up_favs, up_tracks, up_i, results, better, improved, skipped_top,
                   log_entries, errors, calls>>
    /\ UNCHANGED <<up_confirm, notUpgrade>>

UpgradeNext ==
    \/ UpAllTop
    \/ UpConfirmYes
    \/ UpConfirmNo
    \/ UpSkipTop
    \/ SearchAnswered
    \/ SearchRaises
    \/ UpNoBetter
    \/ UpAddSucceeds
    \/ UpAddFails
    \/ UpRemoveSucceeds
    \/ UpRemoveFails
    \/ UpReturn

SpecUpgrade == UpgradeInit /\ [][UpgradeNext]_vars

(***************************************************************************)
(* Properties of process_tracks and search_better_version                  *)
(***************************************************************************)
\* the highest of the quality tiers
TopTier ==
    CHOOSE q \in DOMAIN QUALITY_RANK :
        \A r \in DOMAIN QUALITY_RANK : QUALITY_RANK[r] <= QUALITY_RANK[q]

AtTopTier(t) == get_quality(t) = TopTier

\* the calls issued while the k-th track of the list was handled
CallsFor(k) == SelectSeq(calls, LAMBDA c : c.track = k)

\* C18: a track already at the top quality tier never triggers a search call
\* and never triggers an add or a remove: no remote call is ever issued
\* while such a track is handled, and the step that handles it moves to the
\* next track leaving the favorites as they were.
C18_TopTierNeverSearched ==
    /\ [](\A k \in 1..Len(up_tracks) : AtTopTier(up_tracks[k]) => CallsFor(k) = <<>>)
    /\ [][(up_pc = "next" /\ up_i <= Len(up_tracks) /\ AtTopTier(UpTrack))
            => (calls' = calls /\ up_favs' = up_favs /\ up_i' = up_i + 1
                /\ up_pc' = "next")]_vars

\* a run has ended in which a top-tier track was passed over and another
\* track was searched
C18_Witness ==
    /\ up_pc = "done"
    /\ \E k \in 1..Len(up_tracks) : AtTopTier(up_tracks[k]) /\ CallsFor(k) = <<>>
    /\ skipped_top >= 1
    /\ calls # <<>>

\* the tracks session.search answered with; none when it raised
Answered == IF results.kind = "ok" THEN results.tracks ELSE <<>>

\* c has the normalized artist and title of the source and a strictly
\* higher quality rank
Eligible(c, source) ==
    /\ SearchKeyOf(c)[1] = SearchKeyOf(source)[1]
    /\ SearchKeyOf(c)[2] = SearchKeyOf(source)[2]
    /\ quality_rank(c) > quality_rank(source)

EligibleAt == {k \in 1..Len(Answered) : Eligible(Answered[k], UpTrack)}

\* C19: search_better_version returns a candidate only if its normalized
\* artist and title equal the source's and its rank is strictly greater than
\* the source's; the candidate returned has the greatest rank among those and
\* is the first of that rank in the order of the answer; it returns none when
\* no such candidate exists, so a candidate of equal tier is never selected.
C19_BestIsFirstMaximal ==
    up_pc = "searched" =>
        IF EligibleAt = {}
        THEN better = Nothing
        ELSE \E k \in EligibleAt :
                /\ better = Answered[k]
                /\ \A j \in EligibleAt :
                      /\ quality_rank(Answered[j]) <= quality_rank(Answered[k])
                      /\ quality_rank(Answered[j]) = quality_rank(Answered[k]) => k <= j

\* the search answered two matching candidates of the same higher tier and
\* the first of them was returned
C19_Witness ==
    /\ up_pc = "searched"
    /\ \E j, k \in EligibleAt :
          /\ j < k
          /\ quality_rank(Answered[j]) = quality_rank(Answered[k])
          /\ Answered[j].id # Answered[k].id
          /\ better = Answered[j]

\* the last call issued
LastCall(cs) == cs[Len(cs)]

\* the step issues an add that fails
AddFailsNow ==
    /\ Len(calls') = Len(calls) + 1
    /\ LastCall(calls').op = "add"
    /\ ~LastCall(calls').ok

\* the step issues no call that succeeds in changing the favorites
NoMutationNow ==
    \/ calls' = calls
    \/ /\ Len(calls') = Len(calls) + 1
       /\ LastCall(calls').op = "search" \/ ~LastCall(calls').ok

\* C20: the swap is ordered add-then-remove: a remove is issued only for the
\* id of the original and only after the add of its replacement has
\* succeeded for the same track; after a failed add the track has no further
\* call (no remove), and the failing step leaves the favorites and the count
\* of improved tracks as they were, appends the failure to the error list
\* and moves on to the next track; steps without a successful add or remove
\* never change the favorites.
C20_AddThenRemove ==
    /\ [](\A p \in 1..Len(calls) :
            /\ calls[p].op = "remove" =>
                  /\ calls[p].id = up_tracks[calls[p].track].id
                  /\ \E q \in 1..(p - 1) :
                        /\ calls[q].op = "add"
                        /\ calls[q].ok
                        /\ calls[q].track = calls[p].track
            /\ (calls[p].op = "add" /\ ~calls[p].ok) =>
                  /\ \A q \in (p + 1)..Len(calls) : calls[q].track # calls[p].track
                  /\ Len(CallsFor(calls[p].track)) = 2
                  /\ CallsFor(calls[p].track)[1].op = "search")
    /\ [][AddFailsNow =>
            /\ up_favs' = up_favs
            /\ improved' = improved
            /\ log_entries' = log_entries
            /\ errors' = Append(errors, [kind |-> "ADD FAIL", id |-> UpTrack.id])
            /\ up_i' = up_i + 1
            /\ up_pc' = "next"]_vars
    /\ [][NoMutationNow => up_favs' = up_favs]_vars

\* a run has ended in which one track was swapped (add, then remove) and
\* the add for another track failed, leaving that track in place
C20_Witness ==
    /\ up_pc = "done"
    /\ \E p, q \in 1..Len(calls) :
          /\ calls[p].op = "add" /\ ~calls[p].ok
          /\ up_tracks[calls[p].track].id \in Range(up_favs)
          /\ calls[p].id \notin Range(up_favs)
          /\ calls[q].op = "remove" /\ calls[q].ok
          /\ calls[q].track # calls[p].track
    /\ improved = 1
    /\ Len(errors) = 1

\* the step issues a remove that fails
RemoveFailsNow ==
    /\ Len(calls') = Len(calls) + 1
    /\ LastCall(calls').op = "remove"
    /\ ~LastCall(calls').ok

\* C21: if the add of the replacement succeeded and the remove of the
\* original fails, both copies stay in the favorites: the failing step
\* leaves the favorites as they were, with the original and the replacement
\* in them, does not count the track as improved, records the failure and
\* moves on to the next track; and no remove is ever issued for an id other
\* than that of the track being handled (no compensating remove).
C21_RemoveFailureKeepsBoth ==
    /\ [][RemoveFailsNow =>
            /\ up_favs' = up_favs
            /\ UpTrack.id \in Range(up_favs')
            /\ better.id \in Range(up_favs')
            /\ improved' = improved
            /\ log_entries' = log_entries
            /\ errors' = Append(errors, [kind |-> "REMOVE FAIL", id |-> UpTrack.id])
            /\ up_i' = up_i + 1
            /\ up_pc' = "next"]_vars
    /\ [](\A p \in 1..Len(calls) :
            calls[p].op = "remove" => calls[p].id = up_tracks[calls[p].track].id)
    /\ [](improved = Len(SelectSeq(calls, LAMBDA c : c.op = "remove" /\ c.ok)))

\* a run has ended in which a replacement with another id was added, the
\* remove of the original failed, both are in the favorites, and a later
\* track was handled
C21_Witness ==
    /\ up_pc = "done"
    /\ \E p \in 2..Len(calls) :
          /\ calls[p].op = "remove" /\ ~calls[p].ok
          /\ calls[p - 1].op = "add" /\ calls[p - 1].ok
          /\ calls[p - 1].id # calls[p].id
          /\ calls[p].id \in Range(up_favs)
          /\ calls[p - 1].id \in Range(up_favs)
          /\ calls[p].track < Len(up_tracks)
          /\ \E q \in (p + 1)..Len(calls) : calls[q].track > calls[p].track
    /\ improved = 0

(***************************************************************************)
(* An upgrade run followed by a run of the duplicate cleaner on the list   *)
(* it left, with a source that answers every page and removals that        *)
(* succeed                                                                  *)
(***************************************************************************)
\* limpiar_duplicados_tidal.main starts its preview scan on the favorites
\* the upgrade run left
StartCleanup ==
    /\ up_pc \in {"done", "cancelled", "all_top"}
    /\ pc = "idle"
    /\ favs' = up_favs
    /\ pc' = "preview"
    /\ CollectorStart
    /\ UNCHANGED <<duplicates, g, e, eliminated, round_num, all_removed, all_errors,
                   removeLog>>
    /\ UNCHANGED notDedup

CleanupNext ==
    \/ UpAllTop
    \/ UpConfirmYes
    \/ UpConfirmNo
    \/ UpSkipTop
    \/ SearchAnswered
    \/ SearchRaises
    \/ UpNoBetter
    \/ UpAddSucceeds
    \/ UpAddFails
    \/ UpRemoveSucceeds
    \/ UpRemoveFails
    \/ UpReturn
    \/ StartCleanup
    \/ PageServed
    \/ CollectItem
    \/ CollectEndOfPage
    \/ PreviewGrouping
    \/ ConfirmNo
    \/ ConfirmYes
    \/ RoundGrouping
    \/ RemoveSucceeds
    \/ RoundReturn
    \/ LoopBreak
    \/ LoopContinue

SpecCleanup == UpgradeInit /\ [][CleanupNext]_vars

\* the cleaner's run has ended
CleanupEnded == pc \in {"summary", "clean_exit"}

\* the places in calls of the removes that failed after their add succeeded
FailedSwaps ==
    {p \in 2..Len(calls) :
        /\ calls[p].op = "remove" /\ ~calls[p].ok
        /\ calls[p - 1].op = "add" /\ calls[p - 1].ok}

\* C22: the deferred cleanup holds: after an upgrade in which the add
\* succeeded and the remove failed, a later run of the duplicate cleaner
\* whose removals succeed has put the original and the replacement in one
\* group, kept the replacement and removed the original.
C22_DeferredCleanup ==
    CleanupEnded =>
        \A p \in FailedSwaps :
            /\ calls[p].id \notin Range(favs)
            /\ calls[p - 1].id \in Range(favs)
            /\ \E x \in Range(all_removed) :
                  x.removed = calls[p].id /\ x.kept = calls[p - 1].id

\* the add and remove calls of the upgrade run
Mutations == SelectSeq(calls, LAMBDA c : c.op \in {"add", "remove"})

\* C23: no mutation precedes the user's confirmation. In the upgrade run no
\* add or remove is issued unless the prompt was answered with an accepted
\* word; before the prompt, and after it was declined, or skipped because
\* nothing is upgradeable, no call was issued, the favorites are the list
\* that was read, and a declined run does nothing more. In the cleaner's run
\* no remove is issued before its prompt is confirmed, and a declined run
\* ends with no remove issued and the favorites as they were.
C23_NoMutationBeforeConfirm ==
    /\ [](Mutations # <<>> => up_confirm \in {"si", "sí", "yes", "s", "y"})
    /\ [](up_pc \in {"confirm", "cancelled", "all_top"} =>
            /\ calls = <<>>
            /\ up_favs = IdsOf(up_tracks))
    /\ [][up_pc = "cancelled" => UNCHANGED upgradeVars]_vars
    /\ [](pc \in {"preview", "confirm", "cancelled", "clean_exit"} =>
            /\ removeLog = <<>>
            /\ all_removed = <<>>
            /\ favs = up_favs)
    /\ [][pc = "cancelled" => UNCHANGED mainVars]_vars

\* both prompts were declined: the upgrade run and the cleaner's run that
\* followed it, which had found duplicates, ended with the list untouched
C23_Witness ==
    /\ up_pc = "cancelled"
    /\ up_confirm = "no"
    /\ pc = "cancelled"
    /\ duplicates # <<>>
    /\ favs = IdsOf(up_tracks)
    /\ calls = <<>>
    /\ removeLog = <<>>

\* the remote calls of the upgrade run that failed
FailedCalls == SelectSeq(calls, LAMBDA c : ~c.ok)

\* C24: no error is silently dropped: at the final summary of the upgrade
\* run the error list holds one entry for every remote call (search, add,
\* remove) that failed during the run.
C24_EveryFailureReported ==
    up_pc = "done" => Len(errors) = Len(FailedCalls)

\* C25: every remote call is followed by a pacing delay before the next
\* remote call: in the upgrade run every search that is followed by another
\* call was followed by the read delay, and every add or remove that is
\* followed by another call was followed by the larger modify delay,
\* whether it succeeded or failed.
C25_EveryCallPaced ==
    /\ RATE_LIMIT_DELAY > 0
    /\ MODIFY_DELAY > RATE_LIMIT_DELAY
    /\ \A p \in 1..(Len(calls) - 1) :
          calls[p].delay = IF calls[p].op = "search" THEN RATE_LIMIT_DELAY
                           ELSE MODIFY_DELAY

(***************************************************************************)
(* sincronizar_tidal.py: normalize, find_best_match, search_track, main    *)
(***************************************************************************)
\* re.sub(r"\(.*?\)", "", text) and re.sub(r"\[.*?\]", "", text), from index
\* i on: nothing is put in the place of a span
RECURSIVE DropSpans(_, _, _, _)
DropSpans(text, i, open, close) ==
    IF i > Len(text) THEN <<>>
    ELSE LET j == SpanEnd(text, i, open, close)
         IN  IF j > 0 THEN DropSpans(text, j + 1, open, close)
             ELSE <<text[i]>> \o DropSpans(text, i + 1, open, close)

\* lines 105-111
sync_normalize(text) ==
    LET t1 == lower(text)
        t2 == DropSpans(t1, 1, "(", ")")
        t3 == DropSpans(t2, 1, "[", "]")
        t4 == StripSymbols(t3)
    IN  JoinSplit(t4, 1, <<>>, FALSE)

\* Python's "a in b" for texts
Contains(b, a) == \E k \in 0..(Len(b) - Len(a)) : SubSeq(b, k + 1, k + Len(a)) = a

\* lines 119-134: the loop over results_tracks[:10], from the k-th on
RECURSIVE BestMatchFrom(_, _, _, _)
BestMatchFrom(results_tracks, k, artist_norm, title_norm) ==
    IF k > Len(results_tracks) \/ k > 10 THEN Nothing
    ELSE LET track == results_tracks[k]
             ta == sync_normalize(IF track.artist # NoText THEN track.artist ELSE <<>>)
             tt == sync_normalize(OrText(track.name, <<>>))
             artist_match == Contains(ta, artist_norm) \/ Contains(artist_norm, ta)
             title_match == Contains(tt, title_norm) \/ Contains(title_norm, tt)
         IN  IF artist_match /\ title_match THEN track
             ELSE BestMatchFrom(results_tracks, k + 1, artist_norm, title_norm)

\* lines 114-134
find_best_match(results_tracks, artist, title) ==
    BestMatchFrom(results_tracks, 1, sync_normalize(artist), sync_normalize(title))

\* lines 137-147; resp is the answer of session.search
search_track(resp, artist, title) ==
    IF resp.kind = "error" THEN Nothing
    ELSE IF resp.tracks = <<>> THEN Nothing
    ELSE find_best_match(resp.tracks, artist, title)

\* the local songs: (artist, title) of the file names
SongOde == << <<"A","b","b","a">>, <<"O","d","e">> >>
SongOdeLive == << <<"A","B","B","A">>, <<"O","d","e"," ","(","L","i","v","e",")">> >>
SongSun == << <<"A","b","b","a">>, <<"S","u","n">> >>
SongMoon == << <<"Z","e","d">>, <<"M","o","o","n">> >>

\* what get_songs_from_folder returns
SongLists ==
    { <<>>, <<SongOde>>, <<SongOde, SongOdeLive>>, <<SongSun, SongOde>>, <<SongMoon, SongSun>> }

\* the favorites lists a sync run may start from
InitialSyncFavs ==
    { <<>>, <<1>>, <<4, 0, 1>>, <<1, 2, 3, 4, 5>> }

\* what the catalogue search can answer
SyncAnswers ==
    {[kind |-> "ok", tracks |-> l] :
        l \in ListsUpTo({parse_track_safe(Catalog[i]) : i \in TrackIds}, MaxResults)}

SyncInit ==
    /\ sy_favs \in InitialSyncFavs
    /\ sy_songs \in SongLists
    /\ sy_pc = "read"
    /\ sy_offset = 0
    /\ sy_empty = 0
    /\ existing_ids = {}
    /\ sy_i = 1
    /\ sy_track = Nothing
    /\ added = <<>>
    /\ not_found = <<>>
    /\ already_exists = <<>>
    /\ sy_errors = <<>>
    /\ sy_adds = <<>>
    /\ DedupIdle
    /\ PureIdle
    /\ UpgradeIdle

\* lines 237-242: the position after the favorites were read
AfterRead == IF sy_songs = <<>> THEN "no_songs" ELSE "search"

\* lines 218-221: the ids of the items of a page that have a payload
PageIds(page) == {page[k].item.id : k \in {j \in 1..Len(page) : ~IsNull(page[j].item)}}

\* lines 192-230: one page request that is answered
SyPageServed ==
    /\ sy_pc = "read"
    /\ LET page == PageAt(sy_favs, sy_offset)
       IN  IF page = <<>>
           THEN /\ sy_empty' = sy_empty + 1
                /\ IF sy_empty + 1 >= 2
                   THEN sy_pc' = AfterRead /\ sy_offset' = sy_offset
                   ELSE sy_pc' = sy_pc /\ sy_offset' = sy_offset + LIMIT
                /\ UNCHANGED existing_ids
           ELSE /\ sy_empty' = 0
                /\ existing_ids' = existing_ids \cup PageIds(page)
                /\ IF Cardinality(existing_ids \cup PageIds(page)) >= MAX_TRACKS
                   THEN sy_pc' = AfterRead /\ sy_offset' = sy_offset
                   ELSE sy_pc' = sy_pc /\ sy_offset' = sy_offset + LIMIT
    /\ UNCHANGED <<sy_favs, sy_songs, sy_i, sy_track, added, not_found, already_exists,
                   sy_errors, sy_adds>>
    /\ UNCHANGED notSync

\* lines 233-235: whatever was read is discarded
OnReadError == {}

\* lines 192-201, 233-235: one page request that raises
SyPageFails ==
    /\ sy_pc = "read"
    /\ existing_ids' = OnReadError
    /\ sy_pc' = AfterRead
    /\ UNCHANGED <<sy_favs, sy_offset, sy_empty, sy_songs, sy_i, sy_track, added, not_found,
                   already_exists, sy_errors, sy_adds>>
    /\ UNCHANGED notSync

\* lines 253-265: the search for the song and the test of its outcome
SySearch(resp) ==
    /\ sy_pc = "search"
    /\ sy_i <= Len(sy_songs)
    /\ LET track == search_track(resp, sy_songs[sy_i][1], sy_songs[sy_i][2])
       IN  /\ sy_track' = track
           /\ IF track = Nothing
              THEN /\ not_found' = Append(not_found, sy_i)
                   /\ sy_i' = sy_i + 1
                   /\ UNCHANGED <<sy_pc, already_exists>>
              ELSE IF track.id \in existing_ids
              THEN /\ already_exists' = Append(already_exists, sy_i)
                   /\ sy_i' = sy_i + 1
                   /\ UNCHANGED <<sy_pc, not_found>>
              ELSE /\ sy_pc' = "add"
                   /\ UNCHANGED <<sy_i, not_found, already_exists>>
    /\ UNCHANGED <<sy_favs, sy_offset, sy_empty, existing_ids, sy_songs, added, sy_errors,
                   sy_adds>>
    /\ UNCHANGED notSync

SySearchAnswered == \E resp \in SyncAnswers : SySearch(resp)
SySearchRaises == SySearch([kind |-> "error"])

\* lines 268-282: add_track returns or raises
SyAdd(ok) ==
    /\ sy_pc = "add"
    /\ sy_adds' = Append(sy_adds, [song |-> sy_i, id |-> sy_track.id, ok |-> ok])
    /\ IF ok
       THEN /\ sy_favs' = AddToFavs(sy_favs, sy_track.id)
            /\ existing_ids' = existing_ids \cup {sy_track.id}
            /\ added' = Append(added, sy_i)
            /\ UNCHANGED sy_errors
       ELSE /\ sy_errors' = Append(sy_errors, sy_i)
            /\ UNCHANGED <<sy_favs, existing_ids, added>>
    /\ sy_i' = sy_i + 1
    /\ sy_pc' = "search"
    /\ UNCHANGED <<sy_offset, sy_empty, sy_songs, sy_track, not_found, already_exists>>
    /\ UNCHANGED notSync

SyAddSucceeds == SyAdd(TRUE)
SyAddFails == SyAdd(FALSE)

\* lines 284-291: the loop is over, the summary follows
SyReturn ==
    /\ sy_pc = "search"
    /\ sy_i > Len(sy_songs)
    /\ sy_pc' = "done"
    /\ UNCHANGED <<sy_favs, sy_offset, sy_empty, existing_ids, sy_songs, sy_i, sy_track,
                   added, not_found, already_exists, sy_errors, sy_adds>>
    /\ UNCHANGED notSync

SyncNext ==
    \/ SyPageServed
    \/ SyPageFails
    \/ SySearchAnswered
    \/ SySearchRaises
    \/ SyAddSucceeds
    \/ SyAddFails
    \/ SyReturn

SpecSync == SyncInit /\ [][SyncNext]_vars

\* the step issues an add
SyAddNow == Len(sy_adds') = Len(sy_adds) + 1

\* C26: the sync run adds only missing tracks: an add is never issued for an
\* id that is in the remote favorites, whether it was there at the start of
\* the run (also when the reading of the favorites was cut short by an error
\* or by the cap) or was added earlier in the run.
C26_AddsOnlyMissing ==
    [][SyAddNow => LastCall(sy_adds').id \notin Range(sy_favs)]_vars

\* the step issues a remote call of the upgrade run
UpCallNow(op) == Len(calls') = Len(calls) + 1 /\ LastCall(calls').op = op

\* C27: the search is skipped only for tracks at the single highest quality
\* tier: when a track of any lower tier, the second-highest included, is
\* taken up, the step that handles it issues the search; and when the
\* answer holds a candidate of the same key and a strictly higher tier, the
\* next step issues the add of the swap.
C27_OnlyTopTierSkipped ==
    /\ [][(up_pc = "next" /\ up_i <= Len(up_tracks) /\ ~AtTopTier(UpTrack))
            => UpCallNow("search")]_vars
    /\ [][(up_pc = "searched" /\ EligibleAt # {}) => UpCallNow("add")]_vars

(***************************************************************************)
(* get_all_tracks against a source that answers every page request, for    *)
(* ever.  The answers of such a source do not depend on the offset it is   *)
(* sent, and the loop never reads offset: in this specification offset and *)
(* the count of requests stop growing at a ceiling, so that a loop that    *)
(* goes round for ever is a cycle of states.  The source serves records   *)
(* that have a payload.                                                    *)
(***************************************************************************)
Capped(n, ceiling) == IF n > ceiling THEN ceiling ELSE n

AnsweredPages ==
    {PageResp(its) : its \in SeqsUpTo({ItemOf(i) : i \in CollectIds}, LIMIT)}

SourceAlwaysAnswers ==
    /\ \E resp \in AnsweredPages :
          RequestPageTo(resp, Capped(offset + LIMIT, MaxPages * LIMIT),
                        Capped(nreq + 1, MaxPages))
    /\ UNCHANGED <<mainVars, notDedup>>

LiveEndOfPage ==
    /\ EndOfPageTo(Capped(offset + LIMIT, MaxPages * LIMIT))
    /\ UNCHANGED <<mainVars, notDedup>>

LiveNext == SourceAlwaysAnswers \/ CollectItem \/ LiveEndOfPage

\* the program runs on and every request is answered
SpecCollectLive == CollectInit /\ [][LiveNext]_vars /\ WF_vars(LiveNext)

\* C28: on a source that answers every page request, also one that never
\* returns an empty page and keeps serving identifiers already seen,
\* get_all_tracks eventually returns.
C28_EnumerationReturns == <>(gpc = "return")

(***************************************************************************)
(* The dedup workflow against a stale source: no track is added while it   *)
(* runs, and every page request of a round is answered with a part of what *)
(* the list held at that place when the run started, whether or not those  *)
(* tracks were removed since.                                              *)
(***************************************************************************)
\* the ids whose removal the service accepted
RemovedIds == {removeLog[k].id : k \in {j \in 1..Len(removeLog) : removeLog[j].ok}}

\* the favorites as they were when the run started
StartList == CHOOSE l \in InitialFavs : Range(l) = Range(favs) \cup RemovedIds

\* the sequences made of some of the items of q, in the order of q
RECURSIVE SubSeqs(_)
SubSeqs(q) ==
    IF q = <<>> THEN {<<>>}
    ELSE LET r == SubSeqs(Tail(q))
         IN  r \cup {<<Head(q)>> \o x : x \in r}

\* the preview reads the list before anything was removed
PreviewPageServed == pc = "preview" /\ PageServed

\* a page request of a round
StalePageServed ==
    /\ pc = "round"
    /\ \E its \in SubSeqs(PageAt(StartList, offset)) : RequestPage(PageResp(its))
    /\ UNCHANGED <<mainVars, notDedup>>

StaleLoopContinue == round_num < MaxRounds /\ LoopContinue

StaleNext ==
    \/ PreviewPageServed
    \/ StalePageServed
    \/ PageFails
    \/ CollectItem
    \/ CollectEndOfPage
    \/ PreviewGrouping
    \/ ConfirmNo
    \/ ConfirmYes
    \/ RoundGrouping
    \/ RemoveSucceeds
    \/ RemoveFails
    \/ RoundReturn
    \/ LoopBreak
    \/ StaleLoopContinue

SpecStale == Init /\ [][StaleNext]_vars

\* the ids of the tracks of the favorites as they were when the run started
StartIds == Range(StartList) \ {0}

\* the normalized key and the sort key of the track of each catalog id, as
\* find_duplicates computes them
RECURSIVE CatalogKeysFrom(_)
CatalogKeysFrom(k) ==
    IF k \notin TrackIds THEN <<>>
    ELSE <<[group |-> GroupKeyOf(parse_track_safe(Catalog[k])),
            sort |-> SortKeyOf(parse_track_safe(Catalog[k]))]>> \o CatalogKeysFrom(k + 1)

CatalogKeys == CatalogKeysFrom(1)

\* the tracks of the start list that share the normalized key of track x
SameSong(x) == {y \in StartIds : CatalogKeys[y].group = CatalogKeys[x].group}

\* track x ranks highest among the tracks of the start list with its key
RanksHighest(x) ==
    \A y \in SameSong(x) \ {x} : TupleLess(CatalogKeys[x].sort, CatalogKeys[y].sort)

\* C29: over all the rounds, and whatever part of the start list each
\* collection returns (removed tracks included), the track that ranks
\* highest among the tracks that shared a normalized key at the start is
\* never passed to remove_track, and so stays in the favorites: every song
\* of the start list keeps a copy.
C29_BestCopySurvives ==
    /\ [][removeLog' # removeLog =>
            ~RanksHighest(LastCall(removeLog').id)]_vars
    /\ [](\A x \in StartIds : RanksHighest(x) => x \in Range(favs))

\* a second round was served a track that the first round had removed and
\* passed it to remove_track again, while a later-ranked copy was out of
\* the list it collected
C29_Witness ==
    /\ round_num = 2
    /\ pc = "loop_test"
    /\ \E j, k \in 1..Len(removeLog) :
          /\ removeLog[j].round = 1 /\ removeLog[j].ok
          /\ removeLog[k].round = 2 /\ removeLog[k].id = removeLog[j].id
    /\ Len(all_tracks) < Cardinality(StartIds)

\* the ids that add_track was given, with success, while the k-th track was
\* handled
ReplacementIds(k) ==
    {c.id : c \in {CallsFor(k)[j] : j \in {n \in 1..Len(CallsFor(k)) :
                                              CallsFor(k)[n].op = "add" /\ CallsFor(k)[n].ok}}}

\* C30: an upgrade never loses the song: remove_track is given the id of
\* the original only when the replacement added has another id, and once
\* process_tracks is through with a track the favorites hold the original
\* or its replacement.
C30_SongNeverLost ==
    /\ [][UpCallNow("remove") => better.id # UpTrack.id]_vars
    /\ [](\A k \in 1..Len(up_tracks) :
            (up_pc \in {"next", "searched", "remove", "done"} /\ k < up_i) =>
                \/ up_tracks[k].id \in Range(up_favs)
                \/ ReplacementIds(k) \cap Range(up_favs) # {})

(***************************************************************************)
(* The dedup workflow when the program keeps running: every step that can  *)
(* be taken is eventually taken.                                           *)
(***************************************************************************)
SpecLive == Init /\ [][Next]_vars /\ WF_vars(Next)

\* main has returned
MainEnded == pc \in {"summary", "clean_exit", "cancelled"}

\* the removals the service accepted so far
AcceptedRemovals == Len(SelectSeq(removeLog, LAMBDA x : x.ok))

\* C31: with every accepted removal reflected in the list the next round
\* reads and no track added meanwhile, the loop of main ends after finitely
\* many rounds although it has no maximum round count: the list is shorter
\* by one for every accepted removal, and a round is followed by another
\* only if it had a removal accepted, so it left the list strictly shorter.
C31_LoopTerminates ==
    /\ <>MainEnded
    /\ [](Len(favs) + AcceptedRemovals = Len(StartList))
    /\ [][(round_num >= 1 /\ round_num' = round_num + 1)
            => (OkCount(round_num) >= 1 /\ round_num < Len(StartList))]_vars

\* the run ended in its third round after two rounds that each shortened
\* the list
C31_Witness ==
    /\ pc = "summary"
    /\ round_num = 3
    /\ OkCount(1) >= 1
    /\ OkCount(2) >= 1
    /\ Len(favs) <= Len(StartList) - 2

(***************************************************************************)
(* get_all_tracks against a well-behaved source: the list does not change  *)
(* while it is read, no request raises, and the page at an offset holds    *)
(* exactly the items at positions offset+1 .. offset+LIMIT of the list.    *)
(* The lists hold fewer tracks than the cap; 0 is an entry whose payload   *)
(* is null.                                                                *)
(***************************************************************************)
StaticLists ==
    { <<>>, <<1>>, <<1, 2>>, <<4, 1>>, <<0>>, <<0, 0, 0>>, <<1, 0, 2>>, <<0, 3, 0, 4>>,
      <<3, 0, 0, 0, 5>>, <<0, 0, 0, 0, 2>>, <<0, 2, 0, 0, 0, 1>>, <<5, 0, 0, 3>>,
      <<2, 0>>, <<0, 4>>, <<0, 0, 1, 0>> }

EnumerateInit ==
    /\ favs \in StaticLists
    /\ pc = "collect"
    /\ duplicates = <<>>
    /\ g = 0
    /\ e = 0
    /\ eliminated = 0
    /\ round_num = 0
    /\ all_removed = <<>>
    /\ all_errors = <<>>
    /\ removeLog = <<>>
    /\ gpc = "request"
    /\ offset = 0
    /\ consecutive_empty = 0
    /\ all_tracks = <<>>
    /\ seen_ids = {}
    /\ skipped_unavailable = 0
    /\ items = <<>>
    /\ nreq = 0
    /\ lastResp = "none"
    /\ prevResp = "none"
    /\ repeatDropped = FALSE
    /\ PureIdle
    /\ UpgradeIdle
    /\ SyncIdle

EnumerateNext == PageServed \/ CollectItem \/ CollectEndOfPage

SpecEnumerate == EnumerateInit /\ [][EnumerateNext]_vars

\* the tracks of the entries of the list that have a payload, in the order
\* of the list
RECURSIVE ListedTracks(_)
ListedTracks(list) ==
    IF list = <<>> THEN <<>>
    ELSE (IF Head(list) = 0 THEN <<>> ELSE <<parse_track_safe(FavItem(Head(list)).item)>>)
         \o ListedTracks(Tail(list))

\* the pages that hold items
PagesOf(list) == (Len(list) + LIMIT - 1) \div LIMIT

\* C32: on a source that does not change, raises no error, answers every
\* request with exactly the items at its offset and holds fewer tracks than
\* the cap, get_all_tracks requests the offsets 0, limit, 2*limit, ... one
\* after the other, each once: the pages with items and then two empty
\* ones; and it returns every entry that has a payload and an id exactly
\* once, in the order of the list.
C32_ExactEnumeration ==
    /\ gpc = "request" => offset = nreq * LIMIT
    /\ gpc = "return" =>
          /\ all_tracks = ListedTracks(favs)
          /\ nreq = PagesOf(favs) + 2
          /\ skipped_unavailable = Len(SelectSeq(favs, LAMBDA x : x = 0))

\* a list of two pages with an entry without payload was read to its end
C32_Witness ==
    /\ gpc = "return"
    /\ nreq = 4
    /\ skipped_unavailable >= 1
    /\ Len(all_tracks) = 2

====
